---- MODULE Spec2Model ----
(***************************************************************************)
(* Rumor merge rules of the butterfly gossip layer: the Election rumor     *)
(* (components/butterfly/src/rumor/election.rs) and the Service,           *)
(* ServiceConfig and ServiceFile rumors (rumor/service*.rs), together with *)
(* the pull thread that feeds received rumors into the rumor store         *)
(* (server/pull.rs).                                                       *)
(*                                                                         *)
(* Member ids are strings in the source and are only ever compared for     *)
(* equality and with the lexicographic order of String; they are modelled  *)
(* by their rank 1, 2, 3, ... in that order ("a" < "b" < "c" < "d").       *)
(***************************************************************************)
EXTENDS Integers, Sequences, FiniteSets, TLC

VARIABLES
    local,      \* the Election held for the service group (self of merge)
    prev,       \* local as it was when the last merge was called
    incoming,   \* the Election handed to merge (other)
    ret,        \* the boolean the last merge returned
    branch,     \* the arm of Election::merge the last merge took
    pc,         \* "idle": waiting; "recv": rumor decoded; "done": merged
    pending,    \* members whose initial election is still to be merged
    suit,       \* suitability each member passes to Election::new
    base,       \* the member into whose election the others are merged
    allTrue,    \* every merge so far returned true
    held,       \* per node: the Election its rumor store holds for the group
    wire,       \* election rumors pushed to a node and not yet pulled by it
    rumor_a,    \* a stored rumor, before two rumors are merged into it
    rumor_b,    \* an incoming rumor of the same (type, key, id)
    rumor_c,    \* another incoming rumor of the same (type, key, id)
    after_bc,   \* the stored rumor after merge(b) then merge(c)
    after_cb,   \* the stored rumor after merge(c) then merge(b)
    member_list, \* per node: member id -> None or Some([member, health])
    blacklist,  \* per node: the member ids its server has blacklisted
    tx_outbound, \* per node: the channel from the inbound to the outbound thread
    udp,        \* the datagrams sent and not yet received
    rx,         \* None, or Some datagram taken by recv_from and its receiver
    calls,      \* the calls the inbound thread made for the last datagram
    sent,       \* every datagram that has been sent so far
    pause,      \* the shared atomic pause flag of the server
    shutdown,   \* the shutdown flag of the server
    inbound_pc, \* where the inbound thread is in the loop of Inbound::run
    pull_pc,    \* where the pull thread is in the loop of Pull::run
    gossip_rx,  \* None, or Some message taken by recv_msg off the pull socket
    pull_calls, \* the calls the pull thread made for the last message
    rumor_store, \* the rumors the server holds, one per (type, key, id)
    outbound_alive, \* the outbound thread holds the receiving end of the channel
    incarnation \* per node: the incarnation of the server's own Member

mergeVars == <<local, prev, incoming, ret, branch, pc>>
seqVars == <<pending, base, allTrue>>
clusterVars == <<held, wire>>
commVars == <<rumor_a, rumor_b, rumor_c, after_bc, after_cb>>
swimVars == <<member_list, blacklist, tx_outbound, udp, rx, calls, sent>>
loopVars == <<pause, shutdown, inbound_pc, pull_pc, gossip_rx, pull_calls,
              rumor_store, outbound_alive>>

vars == <<mergeVars, seqVars, suit, clusterVars, commVars, swimVars, loopVars,
          incarnation>>

\* what the actions of one scenario leave alone
notMerge == <<seqVars, suit, clusterVars, commVars, swimVars, loopVars,
              incarnation>>
notSeq == <<clusterVars, commVars, swimVars, loopVars, incarnation>>
notCluster == <<mergeVars, seqVars, commVars, swimVars, loopVars,
                incarnation>>
notComm == <<seqVars, suit, clusterVars, swimVars, loopVars, incarnation>>
notSwim == <<mergeVars, seqVars, suit, clusterVars, commVars, loopVars,
             incarnation>>
notLoop == <<mergeVars, seqVars, suit, clusterVars, commVars, incarnation>>

(***************************************************************************)
(* Bounds of the model.                                                    *)
(***************************************************************************)
\* member ids that occur in arbitrary incoming elections
NumMembers == 2
\* largest term / suitability of an arbitrary incoming election
MaxU64 == 1
\* members that start an election in the sequential-merge scenario
NumCandidates == 4
\* largest suitability handed to Election::new in that scenario
MaxSuit == 1
\* nodes of the gossiping cluster
NumNodes == 3
\* election rumors that may be in flight at once
MaxInFlight == 1

Members == 1..NumMembers
Candidates == 1..NumCandidates
Nodes == 1..NumNodes
ServiceGroup == "tdep.prod"
Statuses == {"Running", "NoQuorum", "Finished"}

(***************************************************************************)
(* Sequences without repetition over S, of length at most n.               *)
(***************************************************************************)
RECURSIVE VoteLists(_, _)
VoteLists(S, n) ==
    IF n = 0 THEN {<<>>}
    ELSE LET shorter == VoteLists(S, n - 1)
         IN  shorter \cup
             UNION {{Append(v, m) : m \in S \ {v[i] : i \in 1..Len(v)}} :
                        v \in {w \in shorter : Len(w) = n - 1}}

Range(s) == {s[i] : i \in 1..Len(s)}
NoDup(s) == \A i, j \in 1..Len(s) : s[i] = s[j] => i = j

(***************************************************************************)
(* Election (election.rs:37-100)                                           *)
(***************************************************************************)
ElectionNew(member_id, suitability) ==
    [from_id       |-> member_id,
     member_id     |-> member_id,
     service_group |-> ServiceGroup,
     term          |-> 0,
     suitability   |-> suitability,
     status        |-> "Running",
     votes         |-> <<member_id>>]

\* mutant: the vote is pushed without looking for it
insert_vote_Always(votes, member_id) == Append(votes, member_id)

\* insert_vote on a votes vector: push unless already contained
insert_vote(votes, member_id) ==
    IF member_id \in Range(votes) THEN votes ELSE Append(votes, member_id)

\* the loop of steal_votes: insert_vote for each of other's votes in order
RECURSIVE StealLoop(_, _, _)
StealLoop(votes, other_votes, i) ==
    IF i > Len(other_votes) THEN votes
    ELSE StealLoop(insert_vote(votes, other_votes[i]), other_votes, i + 1)

\* mutant: only the first of other's votes is taken
steal_votes_First(self, other) ==
    [self EXCEPT !.votes = IF other.votes = <<>> THEN self.votes
                           ELSE insert_vote(self.votes, other.votes[1])]

\* self.steal_votes(&mut other): self with other's votes inserted
steal_votes(self, other) ==
    [self EXCEPT !.votes = StealLoop(self.votes, other.votes, 1)]

\* impl PartialEq for Election: from_id is not compared
ElectionEq(self, other) ==
    /\ self.service_group = other.service_group
    /\ self.member_id = other.member_id
    /\ self.suitability = other.suitability
    /\ self.votes = other.votes
    /\ self.status = other.status
    /\ self.term = other.term

(***************************************************************************)
(* Election::merge (election.rs:140-182).  Each arm gives the election     *)
(* self becomes and the value returned.                                    *)
(***************************************************************************)
\* mutant: identical rumors reported as a change
MergeSameObject_True(self, other) == [election |-> self, changed |-> TRUE]

\* "If we are the same object, just return false"
MergeSameObject(self, other) == [election |-> self, changed |-> FALSE]

\* mutant: the finished leader also collects the local votes
MergeTakeLeader_Steals(self, other) ==
    [election |-> steal_votes(other, self), changed |-> TRUE]

\* "... it has a leader, we take it as the leader and move on": *self = other
MergeTakeLeader(self, other) == [election |-> other, changed |-> TRUE]

\* mutant: a finished election still collects the votes of the other side
MergeDropOther_Steals(self, other) ==
    [election |-> steal_votes(self, other), changed |-> FALSE]

\* "... we are finished, then we drop the other side on the floor"
MergeDropOther(self, other) == [election |-> self, changed |-> FALSE]

\* mutant: an older term is dropped silently
MergeKeepSharing_False(self, other) == [election |-> self, changed |-> FALSE]

\* mutant: the election of the older term is adopted
MergeKeepSharing_Adopts(self, other) == [election |-> other, changed |-> TRUE]

\* "... a term that's lower than ours, keep sharing our rumor"
MergeKeepSharing(self, other) == [election |-> self, changed |-> TRUE]

\* mutant: the winner forgets to steal the votes
MergeStealVotes_KeepsOwn(self, other) == [election |-> self, changed |-> TRUE]

\* self.steal_votes(&mut other); true
MergeStealVotes(self, other) ==
    [election |-> steal_votes(self, other), changed |-> TRUE]

\* mutant: the other side is adopted without being given our votes
MergeGiveVotes_Forgets(self, other) == [election |-> other, changed |-> TRUE]

\* mutant: our votes are handed over but the other side is not adopted
MergeGiveVotes_NoAdopt(self, other) == [election |-> self, changed |-> TRUE]

\* mutant: the other side is adopted with our votes in place of its own
MergeGiveVotes_OwnVotes(self, other) ==
    [election |-> [other EXCEPT !.votes = self.votes], changed |-> TRUE]

\* other.steal_votes(self); *self = other; true
MergeGiveVotes(self, other) ==
    [election |-> steal_votes(other, self), changed |-> TRUE]

\* mutant: the id that sorts first wins the tie
TieBreak_Reversed(self, other) == self.member_id <= other.member_id

\* the comparison that settles equal suitabilities
TieBreak(self, other) == self.member_id >= other.member_id

WithArm(r, a) == [election |-> r.election, changed |-> r.changed, arm |-> a]

ElectionMerge(self, other) ==
    IF ElectionEq(self, other)
    THEN WithArm(MergeSameObject(self, other), "same")
    ELSE IF other.term >= self.term /\ other.status = "Finished"
    THEN WithArm(MergeTakeLeader(self, other), "take_leader")
    ELSE IF other.term = self.term /\ self.status = "Finished"
    THEN WithArm(MergeDropOther(self, other), "drop_other")
    ELSE IF self.term > other.term
    THEN WithArm(MergeKeepSharing(self, other), "keep_sharing")
    ELSE IF self.suitability > other.suitability
    THEN WithArm(MergeStealVotes(self, other), "steal")
    ELSE IF other.suitability > self.suitability
    THEN WithArm(MergeGiveVotes(self, other), "give")
    ELSE IF TieBreak(self, other)
    THEN WithArm(MergeStealVotes(self, other), "tie_steal")
    ELSE WithArm(MergeGiveVotes(self, other), "tie_give")

\* a member id other than m (a peer that relays the rumor about m)
OtherMember(m) == (m % NumMembers) + 1

(***************************************************************************)
(* Arbitrary elections a peer may hand to merge.                           *)
(***************************************************************************)
IncomingElections ==
    UNION {{[from_id       |-> f,
             member_id     |-> m,
             service_group |-> ServiceGroup,
             term          |-> t,
             suitability   |-> s,
             status        |-> st,
             votes         |-> v] :
               f \in {OtherMember(m)}, t \in 0..MaxU64, s \in 0..MaxU64,
               st \in Statuses, v \in VoteLists(Members, NumMembers)} :
           m \in Members}

NoElection == ElectionNew(0, 0)

\* the sequential-merge scenario is not running
SeqIdle == pending = {} /\ base = 0 /\ allTrue = TRUE

\* a single stored election is not being driven
MergeIdle ==
    /\ local = NoElection /\ prev = NoElection /\ incoming = NoElection
    /\ ret = FALSE /\ branch = "none" /\ pc = "idle"

\* the capacity of the channel from the inbound to the outbound thread
MaxChannel == 1

\* the number of indirect probes the outbound threads start
MaxProbes == 1

\* no cluster is running
ClusterIdle == held = <<>> /\ wire = {}

\* no pair of merge orders is being compared
CommIdle ==
    /\ rumor_a = NoElection /\ rumor_b = NoElection /\ rumor_c = NoElection
    /\ after_bc = NoElection /\ after_cb = NoElection

\* no SWIM socket is open
SwimIdle ==
    /\ member_list = <<>> /\ blacklist = <<>> /\ tx_outbound = <<>>
    /\ udp = {} /\ rx = <<>> /\ calls = <<>> /\ sent = {}
    /\ incarnation = <<>>

\* the loops of the server's threads are not followed step by step: no flag
\* is set, the pull socket is not read, the outbound thread is there
LoopIdle ==
    /\ pause = FALSE /\ shutdown = FALSE
    /\ inbound_pc = "none" /\ pull_pc = "none"
    /\ gossip_rx = <<>> /\ pull_calls = <<>> /\ rumor_store = {}
    /\ outbound_alive = TRUE

(***************************************************************************)
(* Spec: one stored election, merged with arbitrary incoming elections,    *)
(* one after another.                                                      *)
(***************************************************************************)
Init ==
    /\ \E m \in Members, s \in 0..MaxU64 : local = ElectionNew(m, s)
    /\ prev = NoElection
    /\ incoming = NoElection
    /\ ret = FALSE
    /\ branch = "none"
    /\ pc = "idle"
    /\ suit = <<>>
    /\ SeqIdle
    /\ ClusterIdle
    /\ CommIdle
    /\ SwimIdle
    /\ LoopIdle

\* a rumor arrives and is decoded into an Election
Receive ==
    /\ pc = "idle"
    /\ \E other \in IncomingElections : incoming' = other
    /\ pc' = "recv"
    /\ UNCHANGED <<local, prev, ret, branch, notMerge>>

\* local.merge(incoming)
Merge ==
    /\ pc = "recv"
    /\ prev' = local
    /\ local' = ElectionMerge(local, incoming).election
    /\ ret' = ElectionMerge(local, incoming).changed
    /\ branch' = ElectionMerge(local, incoming).arm
    /\ pc' = "done"
    /\ UNCHANGED <<incoming, notMerge>>

\* merge has returned; the moved-in rumor is dropped and the loop goes on
Continue ==
    /\ pc = "done"
    /\ prev' = NoElection
    /\ incoming' = NoElection
    /\ ret' = FALSE
    /\ branch' = "none"
    /\ pc' = "idle"
    /\ UNCHANGED <<local, notMerge>>

Next == Receive \/ Merge \/ Continue

Spec == Init /\ [][Next]_vars

(***************************************************************************)
(* SpecSeq: every candidate creates its initial election; the elections of *)
(* the others are merged, one after another and in any order, into the     *)
(* election of one of them (tests merge_four, merge_four_one_higher_...).  *)
(***************************************************************************)
InitSeq ==
    /\ suit \in [Candidates -> 0..MaxSuit]
    /\ base \in Candidates
    /\ local = ElectionNew(base, suit[base])
    /\ pending = Candidates \ {base}
    /\ allTrue = TRUE
    /\ prev = NoElection
    /\ incoming = NoElection
    /\ ret = FALSE
    /\ branch = "none"
    /\ pc = "idle"
    /\ ClusterIdle
    /\ CommIdle
    /\ SwimIdle
    /\ LoopIdle

\* create_election(m, suit[m]) of a member not merged yet
SeqCreate ==
    /\ pc = "idle"
    /\ \E m \in pending :
          /\ incoming' = ElectionNew(m, suit[m])
          /\ pending' = pending \ {m}
    /\ pc' = "recv"
    /\ UNCHANGED <<local, prev, ret, branch, suit, base, allTrue, notSeq>>

\* assert_eq!(e1.merge(e), true)
SeqMerge ==
    /\ pc = "recv"
    /\ prev' = local
    /\ local' = ElectionMerge(local, incoming).election
    /\ ret' = ElectionMerge(local, incoming).changed
    /\ branch' = ElectionMerge(local, incoming).arm
    /\ allTrue' = (allTrue /\ ElectionMerge(local, incoming).changed)
    /\ pc' = "done"
    /\ UNCHANGED <<incoming, pending, suit, base, notSeq>>

NextSeq == SeqCreate \/ SeqMerge \/ Continue

SpecSeq == InitSeq /\ [][NextSeq]_vars

(***************************************************************************)
(* The election rumor on the wire.                                         *)
(***************************************************************************)
\* the Rumor record an election is sent as: from_id and the Election payload
ElectionToProto(e) ==
    [from_id |-> e.from_id,
     payload |-> [member_id     |-> e.member_id,
                  service_group |-> e.service_group,
                  term          |-> e.term,
                  suitability   |-> e.suitability,
                  status        |-> e.status,
                  votes         |-> e.votes]]

\* Election::from_proto (election.rs:113-136): from_id and member_id are
\* both taken from the rumor's from_id, the rest from the payload
ElectionFromProto(rumor) ==
    [from_id       |-> rumor.from_id,
     member_id     |-> rumor.from_id,
     service_group |-> rumor.payload.service_group,
     term          |-> rumor.payload.term,
     suitability   |-> rumor.payload.suitability,
     status        |-> rumor.payload.status,
     votes         |-> rumor.payload.votes]

\* Server::insert_election on a store that holds an election for the
\* group: the stored rumor is merged with the received one
insert_election(stored, election) == ElectionMerge(stored, election).election

(***************************************************************************)
(* SpecCluster: every node starts an election for the same service group,  *)
(* with pairwise distinct suitabilities; nodes push their current election  *)
(* rumor to each other and the pull thread of the receiver inserts it.     *)
(***************************************************************************)
DistinctSuitabilities ==
    {f \in [Nodes -> 0..(NumNodes - 1)] :
        \A m, n \in Nodes : f[m] = f[n] => m = n}

InitCluster ==
    /\ suit \in DistinctSuitabilities
    /\ held = [n \in Nodes |-> ElectionNew(n, suit[n])]
    /\ wire = {}
    /\ MergeIdle
    /\ SeqIdle
    /\ CommIdle
    /\ SwimIdle
    /\ LoopIdle

\* node s pushes its current election rumor to node r
Push(s, r) ==
    /\ s # r
    /\ Cardinality(wire) < MaxInFlight
    /\ wire' = wire \cup {[to |-> r, rumor |-> ElectionToProto(held[s])]}
    /\ UNCHANGED <<held, suit, notCluster>>

\* one iteration of Pull::run at node r for an Election rumor
\* (pull.rs:135-136): decode, then insert into the rumor store
Pull(r) ==
    \E msg \in wire :
        /\ msg.to = r
        /\ held' = [held EXCEPT ![r] =
                        insert_election(@, ElectionFromProto(msg.rumor))]
        /\ wire' = wire \ {msg}
        /\ UNCHANGED <<suit, notCluster>>

NextCluster ==
    \/ \E s, r \in Nodes : Push(s, r)
    \/ \E r \in Nodes : Pull(r)

\* every pair keeps exchanging rumors, and a pushed rumor is pulled
FairCluster ==
    /\ \A s, r \in Nodes : SF_vars(Push(s, r))
    /\ \A r \in Nodes : WF_vars(Pull(r))

SpecCluster == InitCluster /\ [][NextCluster]_vars /\ FairCluster

ClusterMostSuitable ==
    CHOOSE n \in Nodes : \A m \in Nodes : suit[m] <= suit[n]

Converged == \A n \in Nodes : held[n].member_id = ClusterMostSuitable

MaxSuitability == CHOOSE x \in {suit[m] : m \in Candidates} :
                      \A m \in Candidates : suit[m] <= x
UniqueMax == Cardinality({m \in Candidates : suit[m] = MaxSuitability}) = 1
MostSuitable == CHOOSE m \in Candidates : suit[m] = MaxSuitability
AllEqual == \A m, n \in Candidates : suit[m] = suit[n]
AllMerged == pending = {} /\ pc \in {"done", "idle"}

\* C1: with exactly one member of strictly highest suitability, every merge
\* of another member's initial election returns true, and once all are
\* merged the election names that member and holds every participant's
\* vote exactly once.
C1_HighestSuitabilityWins ==
    UniqueMax =>
        /\ allTrue
        /\ AllMerged =>
              /\ local.member_id = MostSuitable
              /\ Len(local.votes) = NumCandidates
              /\ Range(local.votes) = Candidates

C1_Witness ==
    /\ UniqueMax /\ AllMerged /\ pc = "done"
    /\ base # MostSuitable
    /\ local.member_id = MostSuitable
    /\ branch = "steal"

\* the votes of kept followed by those votes of lost that kept lacks
VotesReceived(kept, lost) ==
    kept.votes \o SelectSeq(lost.votes, LAMBDA x : x \notin Range(kept.votes))

C5_EqualMergeIsNoChange ==
    (pc = "done" /\ ElectionEq(prev, incoming))
        => (ret = FALSE /\ local = prev)

C5_Witness ==
    /\ pc = "done" /\ ElectionEq(prev, incoming)
    /\ prev.from_id # incoming.from_id
    /\ ret = FALSE

\* C6: a Finished incoming election of a term at least the local one, and
\* different from the local election, is adopted whole: merge returns true
\* and the local election is exactly the incoming one.
C6_FinishedIsAdopted ==
    ( /\ pc = "done"
      /\ incoming.status = "Finished"
      /\ incoming.term >= prev.term
      /\ ~ElectionEq(prev, incoming) )
        => (ret = TRUE /\ local = incoming)

C6_Witness ==
    /\ pc = "done" /\ branch = "take_leader"
    /\ ~(Range(prev.votes) \subseteq Range(incoming.votes))
    /\ prev.suitability > incoming.suitability
    /\ local = incoming

\* C7 as stated: a Finished local election is left unchanged by any
\* incoming election of the same term.
C7_FinishedIsAbsorbing ==
    (pc = "done" /\ prev.status = "Finished" /\ incoming.term = prev.term)
        => local = prev

\* C7 (amended): a Finished local election is left unchanged by any
\* incoming election of the same term that is not itself Finished.
C7_FinishedAbsorbsUnfinished ==
    ( /\ pc = "done"
      /\ prev.status = "Finished"
      /\ incoming.term = prev.term
      /\ incoming.status # "Finished" )
        => local = prev

C7_Witness ==
    /\ pc = "done" /\ branch = "drop_other"
    /\ prev.status = "Finished"
    /\ incoming.suitability > prev.suitability
    /\ ~(Range(incoming.votes) \subseteq Range(prev.votes))
    /\ local = prev

\* C8: when the local term is strictly greater than the incoming term the
\* local election is left exactly as it was and merge returns true.
C8_HigherTermKeepsLocal ==
    (pc = "done" /\ prev.term > incoming.term)
        => (local = prev /\ ret = TRUE)

C8_Witness ==
    /\ pc = "done" /\ prev.term > incoming.term
    /\ incoming.suitability > prev.suitability
    /\ ~(Range(incoming.votes) \subseteq Range(prev.votes))
    /\ ret = TRUE

(***************************************************************************)
(* The Service, ServiceConfig, ServiceFile and Departure rumors            *)
(* (rumor/service.rs, service_config.rs, service_file.rs, departure.rs).   *)
(* Strings are kept as strings, Vec<u8> as sequences of bytes.             *)
(***************************************************************************)
ServiceGroups == {"neurosis.production", "adam.fragile"}
Bodies == {<<>>, <<1>>}
Filenames == {"yep", "nope"}

Services ==
    [member_id     : Members,
     service_group : ServiceGroups,
     incarnation   : 0..MaxU64,
     initialized   : BOOLEAN,
     pkg           : {"core/neurosis/1.2.3/20161208121212"},
     cfg           : Bodies,
     sys           : {"SysInfo::default"}]

ServiceConfigs ==
    [from_id       : Members,
     service_group : ServiceGroups,
     incarnation   : 0..MaxU64,
     encrypted     : BOOLEAN,
     config        : Bodies]

ServiceFiles ==
    [from_id       : Members,
     service_group : ServiceGroups,
     incarnation   : 0..MaxU64,
     encrypted     : {FALSE},
     filename      : Filenames,
     body          : Bodies]

Departures == [member_id : Members]

\* Rumor::kind, decided by the type of the struct
Kind(r) ==
    IF "votes" \in DOMAIN r THEN "Election"
    ELSE IF "pkg" \in DOMAIN r THEN "Service"
    ELSE IF "config" \in DOMAIN r THEN "ServiceConfig"
    ELSE IF "filename" \in DOMAIN r THEN "ServiceFile"
    ELSE "Departure"

\* Rumor::key
Key(r) == IF Kind(r) = "Departure" THEN "departure" ELSE r.service_group

\* Rumor::id
Id(r) ==
    CASE Kind(r) = "Election"      -> "election"
      [] Kind(r) = "Service"       -> r.member_id
      [] Kind(r) = "ServiceConfig" -> "service_config"
      [] Kind(r) = "ServiceFile"   -> r.filename
      [] Kind(r) = "Departure"     -> r.member_id

\* mutant: the comparison of the incarnations is reversed
OrdCmp_Reversed(a, b) ==
    IF a > b THEN "Less" ELSE IF a = b THEN "Equal" ELSE "Greater"

\* Ord::cmp, of two u64 or of two member ids
OrdCmp(a, b) ==
    IF a < b THEN "Less" ELSE IF a = b THEN "Equal" ELSE "Greater"

\* PartialOrd for Service
ServicePartialCmp(self, other) ==
    IF self.member_id # other.member_id
         \/ self.service_group # other.service_group
    THEN "None"
    ELSE OrdCmp(self.incarnation, other.incarnation)

\* PartialOrd for ServiceConfig
ServiceConfigPartialCmp(self, other) ==
    IF self.service_group # other.service_group
    THEN "None"
    ELSE OrdCmp(self.incarnation, other.incarnation)

\* PartialOrd for ServiceFile
ServiceFilePartialCmp(self, other) ==
    IF self.service_group # other.service_group
    THEN "None"
    ELSE OrdCmp(self.incarnation, other.incarnation)

\* PartialOrd for Departure
DeparturePartialCmp(self, other) ==
    IF self.member_id # other.member_id
    THEN "None"
    ELSE OrdCmp(self.member_id, other.member_id)

\* mutant: >= is taken for >
PartialGe_Strict(ord) == ord = "Greater"

\* the >= of PartialOrd: false when the two are not comparable
PartialGe(ord) == ord \in {"Greater", "Equal"}

\* if *self >= other { false } else { mem::swap(self, &mut other); true }
ServiceMerge(self, other) ==
    IF PartialGe(ServicePartialCmp(self, other))
    THEN [rumor |-> self, changed |-> FALSE]
    ELSE [rumor |-> other, changed |-> TRUE]

ServiceConfigMerge(self, other) ==
    IF PartialGe(ServiceConfigPartialCmp(self, other))
    THEN [rumor |-> self, changed |-> FALSE]
    ELSE [rumor |-> other, changed |-> TRUE]

ServiceFileMerge(self, other) ==
    IF PartialGe(ServiceFilePartialCmp(self, other))
    THEN [rumor |-> self, changed |-> FALSE]
    ELSE [rumor |-> other, changed |-> TRUE]

\* mutant: the incoming departure is swapped in like a service rumor
DepartureMerge_Swaps(self, other) ==
    IF self.member_id = other.member_id
    THEN [rumor |-> self, changed |-> FALSE]
    ELSE [rumor |-> other, changed |-> TRUE]

\* if *self >= other { false } else { true }: self is never assigned
DepartureMerge(self, other) ==
    IF PartialGe(DeparturePartialCmp(self, other))
    THEN [rumor |-> self, changed |-> FALSE]
    ELSE [rumor |-> self, changed |-> TRUE]

\* Rumor::merge, dispatched on the type of the two rumors
RumorMerge(self, other) ==
    CASE Kind(self) = "Election" ->
             [rumor   |-> ElectionMerge(self, other).election,
              changed |-> ElectionMerge(self, other).changed]
      [] Kind(self) = "Service"       -> ServiceMerge(self, other)
      [] Kind(self) = "ServiceConfig" -> ServiceConfigMerge(self, other)
      [] Kind(self) = "ServiceFile"   -> ServiceFileMerge(self, other)
      [] Kind(self) = "Departure"     -> DepartureMerge(self, other)

ServiceKinds == {"Service", "ServiceConfig", "ServiceFile"}

ServiceRumors == Services \cup ServiceConfigs \cup ServiceFiles \cup Departures

(***************************************************************************)
(* SpecRumor: one stored Service, ServiceConfig, ServiceFile or Departure  *)
(* rumor, merged with arbitrary incoming rumors of its own type, one after *)
(* another.                                                                *)
(***************************************************************************)
InitRumor ==
    /\ local \in ServiceRumors
    /\ prev = NoElection
    /\ incoming = NoElection
    /\ ret = FALSE
    /\ branch = "none"
    /\ pc = "idle"
    /\ suit = <<>>
    /\ SeqIdle
    /\ ClusterIdle
    /\ CommIdle
    /\ SwimIdle
    /\ LoopIdle

\* a rumor arrives and is decoded into a rumor of the stored one's type
RumorReceive ==
    /\ pc = "idle"
    /\ \E other \in {r \in ServiceRumors : Kind(r) = Kind(local)} :
           incoming' = other
    /\ pc' = "recv"
    /\ UNCHANGED <<local, prev, ret, branch, notMerge>>

\* local.merge(incoming)
RumorMergeStep ==
    /\ pc = "recv"
    /\ prev' = local
    /\ local' = RumorMerge(local, incoming).rumor
    /\ ret' = RumorMerge(local, incoming).changed
    /\ branch' = IF RumorMerge(local, incoming).rumor = local
                 THEN "keep" ELSE "swap"
    /\ pc' = "done"
    /\ UNCHANGED <<incoming, notMerge>>

NextRumor == RumorReceive \/ RumorMergeStep \/ Continue

SpecRumor == InitRumor /\ [][NextRumor]_vars

\* service group matches, and for a Service the member id as well
SameIdentity(x, y) ==
    /\ Kind(x) = Kind(y)
    /\ x.service_group = y.service_group
    /\ Kind(x) = "Service" => x.member_id = y.member_id

\* C10: for Service, ServiceConfig and ServiceFile rumors of matching
\* identity, an incoming rumor of strictly greater incarnation makes merge
\* return true and the local rumor become the incoming one in every field.
C10_HigherIncarnationReplaces ==
    ( /\ pc = "done"
      /\ Kind(prev) \in ServiceKinds
      /\ SameIdentity(prev, incoming)
      /\ incoming.incarnation > prev.incarnation )
        => (ret = TRUE /\ local = incoming)

C10_Witness ==
    /\ pc = "done"
    /\ Kind(prev) = "ServiceFile"
    /\ SameIdentity(prev, incoming)
    /\ incoming.incarnation > prev.incarnation
    /\ incoming.body # prev.body
    /\ incoming.from_id # prev.from_id
    /\ local = incoming
    /\ ret = TRUE

\* C11: for Service, ServiceConfig and ServiceFile rumors of matching
\* identity, an incoming rumor whose incarnation is less than or equal to
\* the local one makes merge return false and leaves the local rumor as it
\* was in every field, also when the content differs at equal incarnation.
C11_OlderOrEqualIsDiscarded ==
    ( /\ pc = "done"
      /\ Kind(prev) \in ServiceKinds
      /\ SameIdentity(prev, incoming)
      /\ incoming.incarnation <= prev.incarnation )
        => (ret = FALSE /\ local = prev)

C11_Witness ==
    /\ pc = "done"
    /\ Kind(prev) = "ServiceConfig"
    /\ SameIdentity(prev, incoming)
    /\ incoming.incarnation = prev.incarnation
    /\ incoming.config # prev.config
    /\ local = prev
    /\ ret = FALSE

\* C12 (as stated): merging a Service rumor whose member_id or
\* service_group differs from the local one, or a ServiceConfig or
\* ServiceFile whose service_group differs, leaves the local rumor
\* unchanged, whatever the incarnations are.
C12_IncomparableNeverMerged ==
    ( /\ pc = "done"
      /\ Kind(prev) \in ServiceKinds
      /\ ~SameIdentity(prev, incoming) )
        => local = prev

\* C13: merging a Departure of the same member_id into a stored Departure
\* returns false, and no merge with any incoming Departure changes the
\* member_id the stored Departure names.
C13_DepartureLatched ==
    [][ Kind(local) = "Departure" =>
          /\ local'.member_id = local.member_id
          /\ (pc = "recv" /\ incoming.member_id = local.member_id)
                 => ret' = FALSE ]_vars

C13_Witness ==
    /\ pc = "done"
    /\ Kind(prev) = "Departure"
    /\ incoming.member_id # prev.member_id
    /\ ret = TRUE
    /\ local = prev

(***************************************************************************)
(* SpecComm: a stored rumor a and two incoming rumors b and c of the same  *)
(* (type, key, id); b and c are merged into a in both orders.              *)
(***************************************************************************)
CommElections ==
    {[from_id       |-> m,
      member_id     |-> m,
      service_group |-> ServiceGroup,
      term          |-> t,
      suitability   |-> s,
      status        |-> st,
      votes         |-> v] :
        m \in Members, t \in 0..MaxU64, s \in 0..MaxU64,
        st \in Statuses, v \in VoteLists(Members, NumMembers)}

CommRumors == CommElections \cup ServiceRumors

\* the rumors the store keeps in the slot of rumor a
SameSlot(a) ==
    {r \in CommRumors : Kind(r) = Kind(a) /\ Key(r) = Key(a) /\ Id(r) = Id(a)}

InitComm ==
    /\ rumor_a \in CommRumors
    /\ rumor_b \in SameSlot(rumor_a)
    /\ rumor_c \in SameSlot(rumor_a)
    /\ after_bc = NoElection
    /\ after_cb = NoElection
    /\ MergeIdle
    /\ suit = <<>>
    /\ SeqIdle
    /\ ClusterIdle
    /\ SwimIdle
    /\ LoopIdle

\* a.merge(b); a.merge(c) on one copy of a, a.merge(c); a.merge(b) on another
MergeBothOrders ==
    /\ pc = "idle"
    /\ rumor_a # NoElection
    /\ after_bc' = RumorMerge(RumorMerge(rumor_a, rumor_b).rumor, rumor_c).rumor
    /\ after_cb' = RumorMerge(RumorMerge(rumor_a, rumor_c).rumor, rumor_b).rumor
    /\ pc' = "done"
    /\ UNCHANGED <<rumor_a, rumor_b, rumor_c>>
    /\ UNCHANGED <<local, prev, incoming, ret, branch, notComm>>

NextComm == MergeBothOrders

SpecComm == InitComm /\ [][NextComm]_vars

\* both orders have been merged
BothMerged == pc = "done" /\ rumor_a # NoElection

\* the three elections are Running and of one term
RunningSameTerm ==
    /\ rumor_a.status = "Running"
    /\ rumor_b.status = "Running"
    /\ rumor_c.status = "Running"
    /\ rumor_b.term = rumor_a.term
    /\ rumor_c.term = rumor_a.term

\* b and c are two different rumors of one incarnation, newer than a
RivalIncarnations ==
    /\ rumor_b.incarnation = rumor_c.incarnation
    /\ rumor_b.incarnation > rumor_a.incarnation
    /\ rumor_b # rumor_c

\* C9 (as stated): merging b then c into a yields the same stored rumor,
\* in all fields, as merging c then b.
C9_MergeCommutes ==
    BothMerged => after_bc = after_cb

\* C9 (amended): a Service, ServiceConfig or ServiceFile ends the same in
\* every field under both orders unless b and c are different rumors of one
\* incarnation newer than a's; a Departure always does; elections that are
\* all Running and of one term end with the same member_id, suitability,
\* term and status and the same set of votes, in whatever order.
C9_MergeCommutesUpToOrder ==
    BothMerged =>
        /\ (Kind(rumor_a) \in ServiceKinds /\ ~RivalIncarnations)
               => after_bc = after_cb
        /\ Kind(rumor_a) = "Departure" => after_bc = after_cb
        /\ (Kind(rumor_a) = "Election" /\ RunningSameTerm)
               => /\ after_bc.member_id = after_cb.member_id
                  /\ after_bc.suitability = after_cb.suitability
                  /\ after_bc.term = after_cb.term
                  /\ after_bc.status = after_cb.status
                  /\ Range(after_bc.votes) = Range(after_cb.votes)

C9_Witness ==
    /\ BothMerged
    /\ Kind(rumor_a) = "Election"
    /\ RunningSameTerm
    /\ rumor_b.suitability > rumor_a.suitability
    /\ rumor_c # rumor_b
    /\ after_bc.member_id = rumor_b.member_id
    /\ after_bc.member_id # rumor_a.member_id
    /\ after_bc.votes # after_cb.votes
    /\ Range(after_bc.votes) = Range(after_cb.votes)

(***************************************************************************)
(* SWIM messages (swim.rs, protocol/swim.rs) and the inbound thread         *)
(* (server/inbound.rs).  An Option is a sequence of at most one element; a  *)
(* string holding the IP address of node n is <<n>>, the empty string of    *)
(* Member::default is <<>> and does not parse as an address.                *)
(***************************************************************************)
None == <<>>
Some(x) == <<x>>
IsSome(o) == o # <<>>
Unwrap(o) == o[1]

IpString(n) == <<n>>
Ports == {9638}
Healths == {"Alive", "Suspect", "Confirmed", "Departed"}

\* struct Member
NewMember(id, address, departed) ==
    [id          |-> id,
     incarnation |-> 0,
     address     |-> address,
     swim_port   |-> 9638,
     gossip_port |-> 9639,
     persistent  |-> FALSE,
     departed    |-> departed]

\* "{}:{}".parse::<SocketAddr>() of an address string and a port
ParseSocketAddr(address, port) ==
    IF Len(address) = 1 THEN Some([ip |-> address[1], port |-> port])
    ELSE None

\* Member::swim_socket_address, where the address parses
swim_socket_address(member) ==
    Unwrap(ParseSocketAddr(member.address, member.swim_port))

\* the socket the inbound and outbound threads of node n share
SocketOf(n) == [ip |-> n, port |-> 9638]

\* Server::member of node n: the Member it sends as `from`
ServerMember(n) == NewMember(n, IpString(n), FALSE)

\* outbound::ack: an Ack from this server, sent to addr
outbound_ack(n, target, addr, forward_to) ==
    [src  |-> SocketOf(n),
     dst  |-> addr,
     swim |-> [type       |-> "Ack",
               membership |-> <<>>,
               from       |-> ServerMember(n),
               forward_to |-> forward_to]]

\* outbound::ping: a Ping from this server, sent to addr
outbound_ping(n, target, addr, forward_to) ==
    [src  |-> SocketOf(n),
     dst  |-> addr,
     swim |-> [type       |-> "Ping",
               membership |-> <<>>,
               from       |-> ServerMember(n),
               forward_to |-> forward_to]]

\* outbound::forward_ack: the Ack as it is, with its memberships, sent to addr
forward_ack(n, addr, members, msg) ==
    [src  |-> SocketOf(n),
     dst  |-> addr,
     swim |-> [type       |-> "Ack",
               membership |-> members,
               from       |-> msg.from,
               forward_to |-> msg.forward_to]]

\* Server::check_blacklist
check_blacklist(bl, id) == id \in bl

\* for membership in members { insert_member_from_rumor(member, health) }
RumorInserts(members) ==
    [i \in 1..Len(members) |->
        [call   |-> "insert_member_from_rumor",
         member |-> members[i].member,
         health |-> members[i].health]]

\* mutant: the PingReq's from goes out as forward_to as it came in
process_pingreq_NoRewrite(n, ml, addr, members, msg) ==
    IF IsSome(ml[msg.target.id])
    THEN <<[call     |-> "send", holding |-> {},
            datagram |-> outbound_ping(n, Unwrap(ml[msg.target.id]).member,
                             swim_socket_address(Unwrap(ml[msg.target.id]).member),
                             Some(msg.from))]>>
    ELSE <<>>

\* the calls cs as made while lock is held: each datagram sent among them
\* is sent holding it
Holding(lock, cs) ==
    [i \in 1..Len(cs) |->
        IF cs[i].call = "send"
        THEN [cs[i] EXCEPT !.holding = @ \cup {lock}]
        ELSE cs[i]]

\* MemberList::with_member: the closure f (a function of the entry) runs on
\* the entry of id, under the shared lock of the member list
with_member(ml, id, f) == Holding("member_list", f[ml[id]])

\* Inbound::process_pingreq: the calls it makes, in order
process_pingreq(n, ml, addr, members, msg) ==
    with_member(ml, msg.target.id,
        [m \in {ml[msg.target.id]} |->
            IF IsSome(m)
            THEN LET target == Unwrap(m).member
                     from   == [msg.from EXCEPT !.address = IpString(addr.ip)]
                 IN  IF ParseSocketAddr(target.address, target.swim_port) = None
                     THEN <<[call |-> "panic"]>>
                     ELSE <<[call     |-> "send", holding |-> {},
                             datagram |-> outbound_ping(n, target,
                                              swim_socket_address(target),
                                              Some(from))]>>
            ELSE <<>>])

\* mutant: an Ack to be routed on is handed to the local channel as well
process_ack_AlsoLocal(n, addr, members, msg) ==
    IF IsSome(msg.forward_to) /\ n # Unwrap(msg.forward_to).id
    THEN IF ParseSocketAddr(Unwrap(msg.forward_to).address,
                            Unwrap(msg.forward_to).swim_port) = None
         THEN <<>>
         ELSE <<[call     |-> "send", holding |-> {},
                 datagram |-> forward_ack(n,
                     swim_socket_address(Unwrap(msg.forward_to)), members,
                     [msg EXCEPT !.from.address = IpString(addr.ip)])],
                [call |-> "tx_outbound", addr |-> addr, msg |-> msg]>>
    ELSE <<[call |-> "tx_outbound", addr |-> addr, msg |-> msg]>>
             \o RumorInserts(members)

\* mutant: an Ack that cannot be forwarded is handled as one for this node
process_ack_FallsBack(n, addr, members, msg) ==
    IF /\ IsSome(msg.forward_to) /\ n # Unwrap(msg.forward_to).id
       /\ IsSome(ParseSocketAddr(Unwrap(msg.forward_to).address,
                                 Unwrap(msg.forward_to).swim_port))
    THEN <<[call     |-> "send", holding |-> {},
            datagram |-> forward_ack(n,
                swim_socket_address(Unwrap(msg.forward_to)), members,
                [msg EXCEPT !.from.address = IpString(addr.ip)])]>>
    ELSE <<[call |-> "tx_outbound", addr |-> addr, msg |-> msg]>>
             \o RumorInserts(members)

\* mutant: the memberships are inserted before the Ack is handed over
process_ack_InsertsFirst(n, addr, members, msg) ==
    IF IsSome(msg.forward_to) /\ n # Unwrap(msg.forward_to).id
    THEN IF ParseSocketAddr(Unwrap(msg.forward_to).address,
                            Unwrap(msg.forward_to).swim_port) = None
         THEN <<>>
         ELSE <<[call     |-> "send", holding |-> {},
                 datagram |-> forward_ack(n,
                     swim_socket_address(Unwrap(msg.forward_to)), members,
                     [msg EXCEPT !.from.address = IpString(addr.ip)])]>>
    ELSE RumorInserts(members)
             \o <<[call |-> "tx_outbound", addr |-> addr, msg |-> msg]>>

\* Inbound::process_ack: the calls it makes, in order
process_ack(n, addr, members, msg) ==
    IF IsSome(msg.forward_to) /\ n # Unwrap(msg.forward_to).id
    THEN LET forward_to      == Unwrap(msg.forward_to)
             forward_to_addr == ParseSocketAddr(forward_to.address,
                                                forward_to.swim_port)
             fwd == [msg EXCEPT !.from.address = IpString(addr.ip)]
         IN  IF forward_to_addr = None
             THEN <<>>
             ELSE <<[call     |-> "send", holding |-> {},
                     datagram |-> forward_ack(n, Unwrap(forward_to_addr),
                                              members, fwd)]>>
    ELSE <<[call |-> "tx_outbound", addr |-> addr, msg |-> msg]>>
             \o RumorInserts(members)

\* mutant: the sender is inserted with the address it claims
process_ping_KeepsAddress(n, addr, members, msg) ==
    <<[call     |-> "send", holding |-> {},
       datagram |-> outbound_ack(n, msg.from, addr, msg.forward_to)],
      [call   |-> "insert_member",
       member |-> msg.from,
       health |-> IF msg.from.departed THEN "Departed" ELSE "Alive"]>>
        \o RumorInserts(members)

\* Inbound::process_ping: the calls it makes, in order
process_ping(n, addr, members, msg) ==
    <<[call     |-> "send", holding |-> {},
       datagram |-> outbound_ack(n, msg.from, addr, msg.forward_to)],
      [call   |-> "insert_member",
       member |-> [msg.from EXCEPT !.address = IpString(addr.ip)],
       health |-> IF msg.from.departed THEN "Departed" ELSE "Alive"]>>
        \o RumorInserts(members)

\* the Ack, Ping or PingReq inside a decoded Swim message
PayloadOf(swim) ==
    IF swim.type = "PingReq"
    THEN [from |-> swim.from, target |-> swim.target]
    ELSE [from |-> swim.from, forward_to |-> swim.forward_to]

\* mutant: the blacklist is consulted for Acks only
InboundRun_PingsUnchecked(n, ml, bl, addr, swim) ==
    CASE swim.type = "Undecodable" -> <<>>
      [] swim.type = "Ping" ->
             process_ping(n, addr, swim.membership, PayloadOf(swim))
      [] swim.type = "Ack" ->
             IF check_blacklist(bl, swim.from.id) /\ swim.forward_to = None
             THEN <<>>
             ELSE process_ack(n, addr, swim.membership, PayloadOf(swim))
      [] swim.type = "PingReq" ->
             process_pingreq(n, ml, addr, swim.membership, PayloadOf(swim))

\* one iteration of Inbound::run at node n for a datagram received from
\* addr: the calls made on the socket, the server and the channel, in order
InboundRun(n, ml, bl, addr, swim) ==
    CASE swim.type = "Undecodable" -> <<>>
      [] swim.type = "Ping" ->
             IF check_blacklist(bl, swim.from.id) THEN <<>>
             ELSE process_ping(n, addr, swim.membership, PayloadOf(swim))
      [] swim.type = "Ack" ->
             IF check_blacklist(bl, swim.from.id) /\ swim.forward_to = None
             THEN <<>>
             ELSE process_ack(n, addr, swim.membership, PayloadOf(swim))
      [] swim.type = "PingReq" ->
             IF check_blacklist(bl, swim.from.id) THEN <<>>
             ELSE process_pingreq(n, ml, addr, swim.membership,
                                  PayloadOf(swim))

\* Health is ordered Alive < Suspect < Confirmed < Departed
HealthRank(h) ==
    CASE h = "Alive" -> 1 [] h = "Suspect" -> 2
      [] h = "Confirmed" -> 3 [] h = "Departed" -> 4

\* mutant: a newer incarnation replaces a Departed record
MemberListInsert_NotSticky(n, ml, member, health) ==
    IF member.id = n THEN ml
    ELSE IF ml[member.id] = None
    THEN [ml EXCEPT ![member.id] = Some([member |-> member, health |-> health])]
    ELSE LET cur == Unwrap(ml[member.id])
         IN  IF \/ member.incarnation > cur.member.incarnation
                \/ /\ member.incarnation = cur.member.incarnation
                   /\ HealthRank(health) > HealthRank(cur.health)
             THEN [ml EXCEPT ![member.id] =
                       Some([member |-> member, health |-> health])]
             ELSE ml

\* mutant: the greater Health wins whatever the incarnations are
MemberListInsert_HealthFirst(n, ml, member, health) ==
    IF member.id = n THEN ml
    ELSE IF ml[member.id] = None
    THEN [ml EXCEPT ![member.id] = Some([member |-> member, health |-> health])]
    ELSE LET cur == Unwrap(ml[member.id])
         IN  IF cur.health = "Departed" THEN ml
             ELSE IF HealthRank(health) > HealthRank(cur.health)
             THEN [ml EXCEPT ![member.id] =
                       Some([member |-> member, health |-> health])]
             ELSE ml

\* MemberList::insert at node n: the greater incarnation wins, at equal
\* incarnation the greater Health; Departed is sticky; the node's own record
\* is not kept in the list
MemberListInsert(n, ml, member, health) ==
    IF member.id = n THEN ml
    ELSE IF ml[member.id] = None
    THEN [ml EXCEPT ![member.id] = Some([member |-> member, health |-> health])]
    ELSE LET cur == Unwrap(ml[member.id])
         IN  IF cur.health = "Departed" THEN ml
             ELSE IF \/ member.incarnation > cur.member.incarnation
                     \/ /\ member.incarnation = cur.member.incarnation
                        /\ HealthRank(health) > HealthRank(cur.health)
             THEN [ml EXCEPT ![member.id] =
                       Some([member |-> member, health |-> health])]
             ELSE ml

IsInsert(c) == c.call \in {"insert_member", "insert_member_from_rumor"}
IsSend(c) == c.call = "send"
IsTx(c) == c.call = "tx_outbound"

\* the member list of node n after the inserts among cs[i..], in order
RECURSIVE ApplyInserts(_, _, _, _)
ApplyInserts(n, ml, cs, i) ==
    IF i > Len(cs) THEN ml
    ELSE ApplyInserts(n,
             IF IsInsert(cs[i])
             THEN MemberListInsert(n, ml, cs[i].member, cs[i].health)
             ELSE ml,
             cs, i + 1)

\* the datagrams the calls put on the socket
SendsOf(cs) == {cs[i].datagram : i \in {j \in 1..Len(cs) : IsSend(cs[j])}}

\* what the calls hand to the outbound thread, in order
TxOf(cs) ==
    LET q == SelectSeq(cs, IsTx)
    IN  [i \in 1..Len(q) |-> [addr |-> q[i].addr, msg |-> q[i].msg]]

\* the handler of the datagram in rx runs from dispatch to the end of the
\* loop body
InboundProcess ==
    /\ IsSome(rx)
    /\ ~Unwrap(rx).handled
    /\ LET d  == Unwrap(rx).datagram
           n  == d.dst.ip
           cs == InboundRun(n, member_list[n], blacklist[n], d.src, d.swim)
       IN  /\ calls' = cs
           /\ member_list' =
                 [member_list EXCEPT ![n] = ApplyInserts(n, @, cs, 1)]
           /\ tx_outbound' = [tx_outbound EXCEPT ![n] = @ \o TxOf(cs)]
           /\ udp' = udp \cup SendsOf(cs)
           /\ rx' = Some([datagram |-> d, handled |-> TRUE])
    /\ UNCHANGED <<blacklist, sent, notSwim>>

\* the loop of Inbound::run goes back to recv_from
InboundContinue ==
    /\ IsSome(rx)
    /\ Unwrap(rx).handled
    /\ rx' = None
    /\ calls' = <<>>
    /\ UNCHANGED <<member_list, blacklist, tx_outbound, udp, sent, notSwim>>

\* the outbound thread of node n takes the next Ack off the channel
OutboundRecv(n) ==
    /\ tx_outbound[n] # <<>>
    /\ tx_outbound' = [tx_outbound EXCEPT ![n] = Tail(@)]
    /\ UNCHANGED <<member_list, blacklist, udp, rx, calls, sent, notSwim>>

(***************************************************************************)
(* SpecInbound: the inbound thread of one node; its peers send it arbitrary *)
(* SWIM datagrams and take what it sends to them.                           *)
(***************************************************************************)
LocalNode == CHOOSE n \in Nodes : \A m \in Nodes : n <= m
Peers == Nodes \ {LocalNode}

\* the members peers name as from, target and in memberships
PeerMembers ==
    {NewMember(id, IpString(id), d) : id \in Peers, d \in BOOLEAN}

\* forward_to as it may arrive: absent, or any member at its address or at
\* an address that does not parse
ForwardTos ==
    {None} \cup {Some(NewMember(id, IpString(id), FALSE)) : id \in Nodes}
           \cup {Some(NewMember(id, <<>>, FALSE)) : id \in Nodes}

Memberships ==
    {<<>>} \cup {<<[member |-> NewMember(id, IpString(id), FALSE),
                   health |-> h]>> : id \in Peers, h \in {"Alive", "Suspect"}}

SwimMessages ==
    {[type |-> t, membership |-> ms, from |-> f, forward_to |-> fw] :
        t \in {"Ping", "Ack"}, ms \in Memberships, f \in PeerMembers,
        fw \in ForwardTos}
    \cup
    {[type |-> "PingReq", membership |-> ms, from |-> f, target |-> tg] :
        ms \in Memberships, f \in PeerMembers,
        tg \in {m \in PeerMembers : ~m.departed}}
    \cup
    {[type |-> "Undecodable"]}

InboundDatagrams ==
    {[src |-> SocketOf(p), dst |-> SocketOf(LocalNode), swim |-> m] :
        p \in Peers, m \in SwimMessages}

\* the member lists a node may start with: each peer unknown or Alive
InitialMemberLists ==
    {[n \in Nodes |->
        IF n \in known
        THEN Some([member |-> NewMember(n, IpString(n), FALSE),
                   health |-> "Alive"])
        ELSE None] : known \in SUBSET Peers}

NoMembers == [n \in Nodes |-> None]

InitInbound ==
    /\ incarnation = [n \in Nodes |-> 0]
    /\ \E ml \in InitialMemberLists :
           member_list = [n \in Nodes |-> IF n = LocalNode THEN ml
                                          ELSE NoMembers]
    /\ \E bl \in SUBSET Peers :
           blacklist = [n \in Nodes |-> IF n = LocalNode THEN bl ELSE {}]
    /\ tx_outbound = [n \in Nodes |-> <<>>]
    /\ udp = {}
    /\ rx = None
    /\ calls = <<>>
    /\ sent = {}
    /\ MergeIdle
    /\ suit = <<>>
    /\ SeqIdle
    /\ ClusterIdle
    /\ CommIdle
    /\ LoopIdle

\* recv_from returns a datagram some peer has sent to this node
InboundRecv ==
    /\ rx = None
    /\ udp = {}
    /\ Len(tx_outbound[LocalNode]) < MaxChannel
    /\ \E d \in InboundDatagrams :
           rx' = Some([datagram |-> d, handled |-> FALSE])
    /\ UNCHANGED <<member_list, blacklist, tx_outbound, udp, calls, sent,
                   notSwim>>

\* a peer receives a datagram this node has sent to it
PeerRecv ==
    /\ \E d \in udp : udp' = udp \ {d}
    /\ UNCHANGED <<member_list, blacklist, tx_outbound, rx, calls, sent,
                   notSwim>>

NextInbound ==
    \/ InboundRecv
    \/ InboundProcess
    \/ InboundContinue
    \/ PeerRecv
    \/ OutboundRecv(LocalNode)

SpecInbound == InitInbound /\ [][NextInbound]_vars

\* the handler of the received datagram has run
Handled == IsSome(rx) /\ Unwrap(rx).handled
RxSwim == Unwrap(rx).datagram.swim
RxAddr == Unwrap(rx).datagram.src
RxBlacklisted == RxSwim.from.id \in blacklist[LocalNode]
RxFrom == [RxSwim.from EXCEPT !.address = IpString(RxAddr.ip)]

\* C14: for a decoded Ping from a sender that is not blacklisted the first
\* call sends an Ack to the datagram's source address with the Ping's
\* forward_to unchanged, the second inserts the sender, its address replaced
\* by the observed remote IP, as Departed if its departed flag is set and as
\* Alive otherwise; there is no other Ack and no other insert_member.
C14_PingIsAckedThenInserted ==
    (Handled /\ RxSwim.type = "Ping" /\ ~RxBlacklisted) =>
        /\ Len(calls) >= 2
        /\ calls[1].call = "send"
        /\ calls[1].datagram.dst = RxAddr
        /\ calls[1].datagram.swim.type = "Ack"
        /\ calls[1].datagram.swim.forward_to = RxSwim.forward_to
        /\ calls[2].call = "insert_member"
        /\ calls[2].member = RxFrom
        /\ calls[2].health = (IF RxSwim.from.departed THEN "Departed"
                              ELSE "Alive")
        /\ \A i \in 3..Len(calls) : calls[i].call = "insert_member_from_rumor"

C14_Witness ==
    /\ Handled /\ RxSwim.type = "Ping" /\ ~RxBlacklisted
    /\ RxSwim.from.departed
    /\ IsSome(RxSwim.forward_to)
    /\ RxSwim.from.address # IpString(RxAddr.ip)
    /\ calls[2].health = "Departed"
    /\ calls[2].member.address = IpString(RxAddr.ip)

RxToBeForwarded ==
    /\ RxSwim.type = "Ack"
    /\ IsSome(RxSwim.forward_to)
    /\ Unwrap(RxSwim.forward_to).id # LocalNode

\* the one call made is the forwarding of the received Ack: sent to
\* forward_to's address and port, from.address overwritten, the rest as it
\* came
RxForwarded ==
    /\ Len(calls) = 1
    /\ calls[1].call = "send"
    /\ Some(calls[1].datagram.dst) =
           ParseSocketAddr(Unwrap(RxSwim.forward_to).address,
                           Unwrap(RxSwim.forward_to).swim_port)
    /\ calls[1].datagram.swim =
           [type       |-> "Ack",
            membership |-> RxSwim.membership,
            from       |-> RxFrom,
            forward_to |-> RxSwim.forward_to]

RxAckForLocal ==
    /\ RxSwim.type = "Ack"
    /\ ~(RxBlacklisted /\ RxSwim.forward_to = None)
    /\ \/ RxSwim.forward_to = None
       \/ Unwrap(RxSwim.forward_to).id = LocalNode

\* C17: an accepted Ack without forward_to, or with forward_to naming this
\* node, is handed to the outbound channel exactly once, paired with the
\* observed source address, and only then are its memberships inserted, each
\* once and in order.
C17_AckIsHandedOverFirst ==
    (Handled /\ RxAckForLocal) =>
        /\ Len(calls) = 1 + Len(RxSwim.membership)
        /\ calls[1] = [call |-> "tx_outbound",
                       addr |-> RxAddr,
                       msg  |-> [from       |-> RxSwim.from,
                                 forward_to |-> RxSwim.forward_to]]
        /\ \A i \in 2..Len(calls) :
               /\ calls[i].call = "insert_member_from_rumor"
               /\ calls[i].member = RxSwim.membership[i - 1].member
               /\ calls[i].health = RxSwim.membership[i - 1].health

C17_Witness ==
    /\ Handled /\ RxAckForLocal
    /\ IsSome(RxSwim.forward_to)
    /\ RxSwim.membership # <<>>
    /\ Len(calls) = 2
    /\ calls[1].call = "tx_outbound"
    /\ tx_outbound[LocalNode] # <<>>

\* C19: a Ping or PingReq whose from.id is blacklisted has no effect: the
\* handler makes no call, nothing is sent, the member list is as it was and
\* nothing is handed to the outbound channel.
C19_BlacklistedPingIsDropped ==
    [][ ( /\ IsSome(rx) /\ ~Unwrap(rx).handled
          /\ RxSwim.type \in {"Ping", "PingReq"}
          /\ RxBlacklisted )
        => ( /\ calls' = <<>>
             /\ udp' = udp
             /\ member_list' = member_list
             /\ Len(tx_outbound'[LocalNode]) <= Len(tx_outbound[LocalNode]) )
      ]_vars

C19_Witness ==
    /\ Handled /\ RxSwim.type = "PingReq" /\ RxBlacklisted
    /\ IsSome(member_list[LocalNode][RxSwim.target.id])
    /\ RxSwim.membership # <<>>
    /\ calls = <<>>

\* C20 (as stated): an Ack whose from.id is blacklisted is processed only
\* when forward_to names a node other than this one, and then only by
\* forwarding it; it is never handed to the outbound channel and its
\* memberships are never inserted.
C20_BlacklistedAckOnlyForwarded ==
    (Handled /\ RxSwim.type = "Ack" /\ RxBlacklisted) =>
        /\ \A i \in 1..Len(calls) : calls[i].call = "send"
        /\ calls # <<>> => RxToBeForwarded

\* the sender of the decoded message is not blacklisted
RxAccepted == RxSwim.type \in {"Ping", "Ack", "PingReq"} /\ ~RxBlacklisted

\* membership k of the received message was inserted by the handler
RxIngested(k) ==
    \E i \in 1..Len(calls) :
        /\ calls[i].call = "insert_member_from_rumor"
        /\ calls[i].member = RxSwim.membership[k].member
        /\ calls[i].health = RxSwim.membership[k].health

\* C21: for every decoded SWIM message from a sender that is not
\* blacklisted, whether Ping, Ack or PingReq, every piggybacked Membership is
\* inserted into the local member list.
C21_MembershipsAlwaysIngested ==
    (Handled /\ RxAccepted) =>
        \A k \in 1..Len(RxSwim.membership) : RxIngested(k)

\* C22: no datagram is sent while the member-list lock is held: every send
\* the handler makes, the Ping that relays a PingReq included, is made
\* holding no lock.
C22_NoSendUnderMemberListLock ==
    Handled =>
        \A i \in 1..Len(calls) :
            IsSend(calls[i]) => "member_list" \notin calls[i].holding

(***************************************************************************)
(* SpecSwim: every node runs its inbound thread; outbound threads start     *)
(* indirect probes by sending a PingReq to a relay.  No datagram is lost.   *)
(***************************************************************************)
\* what each node knows of the others: any subset, at their addresses
InitialKnowledge ==
    {[n \in Nodes |->
        [m \in Nodes |->
            IF m \in known[n]
            THEN Some([member |-> NewMember(m, IpString(m), FALSE),
                       health |-> "Alive"])
            ELSE None]] :
      known \in {k \in [Nodes -> SUBSET Nodes] : \A n \in Nodes : n \notin k[n]}}

\* no blacklist at all, or one node blacklisting one other
InitialBlacklists ==
    {[n \in Nodes |-> {}]}
    \cup {[n \in Nodes |-> IF n = x THEN {y} ELSE {}] :
             x \in Nodes, y \in Nodes}

InitSwim ==
    /\ incarnation = [n \in Nodes |-> 0]
    /\ member_list \in InitialKnowledge
    /\ blacklist \in {bl \in InitialBlacklists : \A n \in Nodes : n \notin bl[n]}
    /\ tx_outbound = [n \in Nodes |-> <<>>]
    /\ udp = {}
    /\ rx = None
    /\ calls = <<>>
    /\ sent = {}
    /\ MergeIdle
    /\ suit = <<>>
    /\ SeqIdle
    /\ ClusterIdle
    /\ CommIdle
    /\ LoopIdle

\* the PingReq a sends to relay c for target b; a may not know its own
\* address and then sends the empty address of Member::default
PingReqDatagrams(a, c, b) ==
    {[src  |-> SocketOf(a),
      dst  |-> SocketOf(c),
      swim |-> [type       |-> "PingReq",
                membership |-> <<>>,
                from       |-> NewMember(a, address, FALSE),
                target     |-> NewMember(b, IpString(b), FALSE)]] :
        address \in {IpString(a), <<>>}}

\* the outbound thread of a starts an indirect probe of b through c
OutboundPingReq(a, c, b) ==
    /\ a # b /\ a # c /\ b # c
    /\ Cardinality({d \in sent : d.swim.type = "PingReq"}) < MaxProbes
    /\ \E d \in PingReqDatagrams(a, c, b) :
           /\ udp' = udp \cup {d}
           /\ sent' = sent \cup {d}
    /\ UNCHANGED <<member_list, blacklist, tx_outbound, rx, calls, notSwim>>

\* one iteration of Inbound::run at node n: recv_from returns a datagram
\* sent to n, the handler runs, the loop goes back to recv_from
SwimDeliver(n) ==
    /\ \E d \in udp :
           /\ d.dst = SocketOf(n)
           /\ LET cs == InboundRun(n, member_list[n], blacklist[n],
                                   d.src, d.swim)
              IN  /\ calls' = cs
                  /\ member_list' =
                        [member_list EXCEPT ![n] = ApplyInserts(n, @, cs, 1)]
                  /\ tx_outbound' =
                        [tx_outbound EXCEPT ![n] = @ \o TxOf(cs)]
                  /\ udp' = (udp \ {d}) \cup SendsOf(cs)
                  /\ sent' = sent \cup SendsOf(cs)
    /\ UNCHANGED <<blacklist, rx, notSwim>>

NextSwim ==
    \/ \E a, c, b \in Nodes : OutboundPingReq(a, c, b)
    \/ \E n \in Nodes : SwimDeliver(n)

\* a datagram that was sent is received
FairSwim == \A n \in Nodes : WF_vars(SwimDeliver(n))

SpecSwim == InitSwim /\ [][NextSwim]_vars /\ FairSwim

\* a PingReq of a for target b is on its way to relay c, which knows b, and
\* no node has blacklisted anyone
ProbeUnderWay(a, c, b) ==
    /\ a # b /\ a # c /\ b # c
    /\ \A n \in Nodes : blacklist[n] = {}
    /\ IsSome(member_list[c][b])
    /\ \E d \in udp : /\ d.swim.type = "PingReq"
                      /\ d.src.ip = a /\ d.dst.ip = c
                      /\ d.swim.target.id = b

\* an Ack of b is in the outbound channel of a
AckDelivered(a, b) ==
    \E i \in 1..Len(tx_outbound[a]) : tx_outbound[a][i].msg.from.id = b

\* c pinged b with forward_to a, b acked c with forward_to a, and c
\* forwarded that Ack to a
RoundTrip(a, c, b) ==
    /\ \E d \in sent : /\ d.swim.type = "Ping"
                       /\ d.src.ip = c /\ d.dst.ip = b
                       /\ IsSome(d.swim.forward_to)
                       /\ Unwrap(d.swim.forward_to).id = a
    /\ \E d \in sent : /\ d.swim.type = "Ack"
                       /\ d.src.ip = b /\ d.dst.ip = c
                       /\ d.swim.from.id = b
                       /\ IsSome(d.swim.forward_to)
                       /\ Unwrap(d.swim.forward_to).id = a
    /\ \E d \in sent : /\ d.swim.type = "Ack"
                       /\ d.src.ip = c /\ d.dst.ip = a
                       /\ d.swim.from.id = b
                       /\ IsSome(d.swim.forward_to)
                       /\ Unwrap(d.swim.forward_to).id = a

\* every Ack in an outbound channel names that node in forward_to and came
\* by a round trip through the relay it was received from
OnlyToProber ==
    \A n \in Nodes : \A i \in 1..Len(tx_outbound[n]) :
        LET e == tx_outbound[n][i]
        IN  /\ IsSome(e.msg.forward_to)
            /\ Unwrap(e.msg.forward_to).id = n
            /\ RoundTrip(n, e.addr.ip, e.msg.from.id)

\* C18: if a sends PingReq(from a, target b) to relay c, c knows b, no node
\* is blacklisted and no datagram is lost, then c pings b with forward_to a,
\* b acks c with forward_to a, c forwards the Ack to a, and the Ack of b
\* reaches the outbound channel of a and of no other node.
C18_IndirectProbeRoundTrip ==
    /\ \A a, c, b \in Nodes : ProbeUnderWay(a, c, b) ~> AckDelivered(a, b)
    /\ []OnlyToProber

C18_Witness ==
    \E a, c, b \in Nodes :
        /\ a # b /\ a # c /\ b # c
        /\ AckDelivered(a, b)
        /\ RoundTrip(a, c, b)
        /\ \E d \in sent : d.swim.type = "PingReq" /\ d.swim.from.address = <<>>
        /\ \A n \in Nodes \ {a} : tx_outbound[n] = <<>>
        /\ udp = {}

(***************************************************************************)
(* Decoding.  A message on a socket is an envelope around the bytes of a    *)
(* protobuf record: unwrap_wire may fail on the envelope and prost's decode *)
(* on the bytes; a decoded record has a type discriminator type_, and a     *)
(* oneof payload that may be missing.  A payload is the variant it was sent *)
(* as (kind), its fields, and the names of the fields left out of it.       *)
(***************************************************************************)
Ok(v) == [result |-> "Ok", value |-> v]
ProtocolMismatch(field) ==
    [result |-> "Err", error |-> "ProtocolMismatch", field |-> field]
Panic == [result |-> "panic"]

\* RumorType::from_i32, for the types Pull::run has an arm for
RumorType_from_i32(i) ==
    CASE i = 1 -> Some("Member")
      [] i = 2 -> Some("Service")
      [] i = 3 -> Some("Election")
      [] i = 4 -> Some("ServiceConfig")
      [] i = 5 -> Some("ServiceFile")
      [] i = 8 -> Some("ElectionUpdate")
      [] i = 9 -> Some("Departure")
      [] OTHER -> None

\* match rumor.payload.ok_or(ProtocolMismatch("payload"))? {
\*     RumorPayload::Kind(payload) => payload, _ => panic!(..) }
ExpectPayload(rumor, kind) ==
    IF rumor.payload = None THEN ProtocolMismatch("payload")
    ELSE IF Unwrap(rumor.payload).kind # kind THEN Panic
    ELSE Ok(Unwrap(rumor.payload))

\* Election::from_proto
Election_from_proto(rumor) ==
    LET payload == ExpectPayload(rumor, "Election")
    IN  IF payload.result # "Ok" THEN payload
        ELSE IF rumor.from_id = None THEN ProtocolMismatch("from-id")
        ELSE IF "service_group" \in payload.value.absent
        THEN ProtocolMismatch("service-group")
        ELSE Ok(ElectionFromProto([from_id |-> Unwrap(rumor.from_id),
                                   payload |-> payload.value.fields]))

\* ElectionUpdate::from_proto: ElectionUpdate(Election::from_proto(rumor)?)
ElectionUpdate_from_proto(rumor) == Election_from_proto(rumor)

\* Service::from_bytes, after the decoding of the bytes
Service_from_proto(rumor) ==
    LET payload == ExpectPayload(rumor, "Service")
    IN  IF payload.result # "Ok" THEN payload
        ELSE IF "member_id" \in payload.value.absent
        THEN ProtocolMismatch("member-id")
        ELSE IF "service_group" \in payload.value.absent
        THEN ProtocolMismatch("service-group")
        ELSE IF "pkg" \in payload.value.absent THEN ProtocolMismatch("pkg")
        ELSE IF "sys" \in payload.value.absent THEN ProtocolMismatch("sys")
        ELSE Ok(payload.value.fields)

\* ServiceConfig::from_proto: from_id is the rumor's
ServiceConfig_from_proto(rumor) ==
    LET payload == ExpectPayload(rumor, "ServiceConfig")
    IN  IF payload.result # "Ok" THEN payload
        ELSE IF rumor.from_id = None THEN ProtocolMismatch("from-id")
        ELSE IF "service_group" \in payload.value.absent
        THEN ProtocolMismatch("service-group")
        ELSE Ok([payload.value.fields EXCEPT !.from_id = Unwrap(rumor.from_id)])

\* ServiceFile::from_bytes, after the decoding of the bytes
ServiceFile_from_proto(rumor) ==
    LET payload == ExpectPayload(rumor, "ServiceFile")
    IN  IF payload.result # "Ok" THEN payload
        ELSE IF rumor.from_id = None THEN ProtocolMismatch("from-id")
        ELSE IF "service_group" \in payload.value.absent
        THEN ProtocolMismatch("service-group")
        ELSE IF "filename" \in payload.value.absent
        THEN ProtocolMismatch("filename")
        ELSE Ok([payload.value.fields EXCEPT !.from_id = Unwrap(rumor.from_id)])

\* Departure::from_bytes, after the decoding of the bytes
Departure_from_proto(rumor) ==
    LET payload == ExpectPayload(rumor, "Departure")
    IN  IF payload.result # "Ok" THEN payload
        ELSE IF "member_id" \in payload.value.absent
        THEN ProtocolMismatch("member-id")
        ELSE Ok(payload.value.fields)

\* Membership::from_proto of a Rumor: a payload that is missing or is not a
\* Member payload, or a missing member, is a ProtocolMismatch
Membership_from_proto(rumor) ==
    IF rumor.payload = None \/ Unwrap(rumor.payload).kind # "Member"
    THEN ProtocolMismatch("payload")
    ELSE IF "member" \in Unwrap(rumor.payload).absent
    THEN ProtocolMismatch("member")
    ELSE Ok(Unwrap(rumor.payload).fields)

\* T::from_proto(proto) for the type T the discriminator names
RumorFromProto(type, rumor) ==
    CASE type = "Member"         -> Membership_from_proto(rumor)
      [] type = "Service"        -> Service_from_proto(rumor)
      [] type = "ServiceConfig"  -> ServiceConfig_from_proto(rumor)
      [] type = "ServiceFile"    -> ServiceFile_from_proto(rumor)
      [] type = "Election"       -> Election_from_proto(rumor)
      [] type = "ElectionUpdate" -> ElectionUpdate_from_proto(rumor)
      [] type = "Departure"      -> Departure_from_proto(rumor)

\* the insert operation of the server each arm of Pull::run calls
InsertOf(type) ==
    CASE type = "Member"         -> "insert_member_from_rumor"
      [] type = "Service"        -> "insert_service"
      [] type = "ServiceConfig"  -> "insert_service_config"
      [] type = "ServiceFile"    -> "insert_service_file"
      [] type = "Election"       -> "insert_election"
      [] type = "ElectionUpdate" -> "insert_update_election"
      [] type = "Departure"      -> "insert_departure"

\* mutant: the arm is chosen by the variant of the payload
PullRun_ByPayload(bl, msg) ==
    IF ~msg.envelope \/ msg.proto = None THEN <<>>
    ELSE LET proto == Unwrap(msg.proto)
         IN  IF IsSome(proto.from_id)
                    /\ check_blacklist(bl, Unwrap(proto.from_id))
             THEN <<>>
             ELSE IF proto.payload = None THEN <<>>
             ELSE LET type    == IF Unwrap(proto.payload).kind = "Election"
                                        /\ proto.type_ = 8
                                 THEN "ElectionUpdate"
                                 ELSE Unwrap(proto.payload).kind
                      decoded == RumorFromProto(type, proto)
                  IN  IF decoded.result # "Ok" THEN <<>>
                      ELSE IF type = "Member"
                      THEN <<[call   |-> InsertOf(type),
                              member |-> decoded.value.member,
                              health |-> decoded.value.health]>>
                      ELSE <<[call  |-> InsertOf(type),
                              rumor |-> decoded.value]>>

\* mutant: the blacklist is not consulted
PullRun_NoBlacklist(bl, msg) ==
    IF ~msg.envelope THEN <<>>
    ELSE IF msg.proto = None THEN <<>>
    ELSE LET proto == Unwrap(msg.proto)
         IN  IF RumorType_from_i32(proto.type_) = None THEN <<>>
             ELSE LET type    == Unwrap(RumorType_from_i32(proto.type_))
                      decoded == RumorFromProto(type, proto)
                  IN  CASE decoded.result = "panic" -> <<[call |-> "panic"]>>
                        [] decoded.result = "Err"   -> <<>>
                        [] decoded.result = "Ok"    ->
                               IF type = "Member"
                               THEN <<[call   |-> InsertOf(type),
                                       member |-> decoded.value.member,
                                       health |-> decoded.value.health]>>
                               ELSE <<[call  |-> InsertOf(type),
                                       rumor |-> decoded.value]>>

\* one iteration of Pull::run for a message received: the calls made on the
\* server, in order
PullRun(bl, msg) ==
    IF ~msg.envelope THEN <<>>
    ELSE IF msg.proto = None THEN <<>>
    ELSE LET proto == Unwrap(msg.proto)
         IN  IF IsSome(proto.from_id)
                    /\ check_blacklist(bl, Unwrap(proto.from_id))
             THEN <<>>
             ELSE IF RumorType_from_i32(proto.type_) = None THEN <<>>
             ELSE LET type    == Unwrap(RumorType_from_i32(proto.type_))
                      decoded == RumorFromProto(type, proto)
                  IN  CASE decoded.result = "panic" -> <<[call |-> "panic"]>>
                        [] decoded.result = "Err"   -> <<>>
                        [] decoded.result = "Ok"    ->
                               IF type = "Member"
                               THEN <<[call   |-> InsertOf(type),
                                       member |-> decoded.value.member,
                                       health |-> decoded.value.health]>>
                               ELSE <<[call  |-> InsertOf(type),
                                       rumor |-> decoded.value]>>

IsPanic(c) == c.call = "panic"
Panicked(cs) == \E i \in 1..Len(cs) : IsPanic(cs[i])

\* the type of rumor each insert operation of the server stores
StoredType(call) ==
    CASE call = "insert_service"         -> "Service"
      [] call = "insert_service_config"  -> "ServiceConfig"
      [] call = "insert_service_file"    -> "ServiceFile"
      [] call = "insert_election"        -> "Election"
      [] call = "insert_update_election" -> "ElectionUpdate"
      [] call = "insert_departure"       -> "Departure"

\* mutant: elections and election updates are kept in one slot
RumorStoreInsert_OneElectionSlot(store, type, rumor) ==
    LET t    == IF type = "ElectionUpdate" THEN "Election" ELSE type
        slot == {e \in store :
                    e.type = t /\ e.key = Key(rumor) /\ e.id = Id(rumor)}
    IN  IF slot = {}
        THEN store \cup {[type |-> t, key |-> Key(rumor), id |-> Id(rumor),
                          rumor |-> rumor]}
        ELSE (store \ slot) \cup
             {[e EXCEPT !.rumor = RumorMerge(e.rumor, rumor).rumor] :
                  e \in slot}

\* RumorStore::insert: the rumor is merged into the one held for its
\* (type, key, id), or kept as it is if there is none
RumorStoreInsert(store, type, rumor) ==
    LET slot == {e \in store :
                    e.type = type /\ e.key = Key(rumor) /\ e.id = Id(rumor)}
    IN  IF slot = {}
        THEN store \cup {[type |-> type, key |-> Key(rumor), id |-> Id(rumor),
                          rumor |-> rumor]}
        ELSE (store \ slot) \cup
             {[e EXCEPT !.rumor = RumorMerge(e.rumor, rumor).rumor] :
                  e \in slot}

\* the rumor store after the inserts among cs[i..], in order
RECURSIVE ApplyStoreInserts(_, _, _)
ApplyStoreInserts(store, cs, i) ==
    IF i > Len(cs) THEN store
    ELSE ApplyStoreInserts(
             IF cs[i].call \in {"insert_service", "insert_service_config",
                                "insert_service_file", "insert_election",
                                "insert_update_election", "insert_departure"}
             THEN RumorStoreInsert(store, StoredType(cs[i].call), cs[i].rumor)
             ELSE store,
             cs, i + 1)

(***************************************************************************)
(* The loop of Pull::run at the local node, step by step: the load of the   *)
(* pause flag, the sleep, the blocking recv_msg, and the handling of the    *)
(* message received.                                                        *)
(***************************************************************************)
\* if self.server.pause.load(..) { sleep; continue }; the message of the
\* iteration before is gone
PullLoad ==
    /\ pull_pc = "top"
    /\ pull_pc' = IF pause THEN "sleep" ELSE "recv"
    /\ gossip_rx' = None
    /\ pull_calls' = <<>>
    /\ UNCHANGED <<pause, shutdown, inbound_pc, rumor_store, outbound_alive,
                   swimVars, notLoop>>

\* thread::sleep(100 ms) is over
PullSleep ==
    /\ pull_pc = "sleep"
    /\ pull_pc' = "top"
    /\ UNCHANGED <<pause, shutdown, inbound_pc, gossip_rx, pull_calls,
                   rumor_store, outbound_alive, swimVars, notLoop>>

\* socket.recv_msg(0) returns a message a peer has pushed
PullRecvMsg(msgs) ==
    /\ pull_pc = "recv"
    /\ \E m \in msgs : gossip_rx' = Some(m)
    /\ pull_pc' = "dispatch"
    /\ UNCHANGED <<pause, shutdown, inbound_pc, pull_calls, rumor_store,
                   outbound_alive, swimVars, notLoop>>

\* socket.recv_msg(0) returns an error: continue 'recv
PullRecvErr ==
    /\ pull_pc = "recv"
    /\ pull_pc' = "top"
    /\ UNCHANGED <<pause, shutdown, inbound_pc, gossip_rx, pull_calls,
                   rumor_store, outbound_alive, swimVars, notLoop>>

\* the message is unwrapped, decoded and routed; a panic ends the thread
PullDispatch ==
    /\ pull_pc = "dispatch"
    /\ LET cs == PullRun(blacklist[LocalNode], Unwrap(gossip_rx))
       IN  /\ pull_calls' = cs
           /\ rumor_store' = ApplyStoreInserts(rumor_store, cs, 1)
           /\ member_list' = [member_list EXCEPT ![LocalNode] =
                                 ApplyInserts(LocalNode, @, cs, 1)]
           /\ pull_pc' = IF Panicked(cs) THEN "panicked" ELSE "top"
    /\ UNCHANGED <<pause, shutdown, inbound_pc, gossip_rx, outbound_alive,
                   blacklist, tx_outbound, udp, rx, calls, sent, notLoop>>

(***************************************************************************)
(* SpecPull: the pull thread of one node; its peers push it arbitrary       *)
(* messages.  The pause flag is never set.                                  *)
(***************************************************************************)
\* the peer whose id the pushed rumors carry
GossipPeer == CHOOSE p \in Peers : \A q \in Peers : p <= q

\* election payloads: the candidate is the sender of the rumor, or another
\* member whose election the sender passes on
ElectionPayloads ==
    {[kind   |-> "Election",
      fields |-> ElectionToProto(ElectionNew(c, sv)).payload,
      absent |-> a] : c \in {GossipPeer, LocalNode}, sv \in 0..MaxU64,
                      a \in {{}, {"service_group"}}}

OneService == CHOOSE r \in Services : r.member_id = GossipPeer
OneServiceConfig == CHOOSE r \in ServiceConfigs : r.from_id = GossipPeer
OneServiceFile == CHOOSE r \in ServiceFiles : r.from_id = GossipPeer

RumorPayloads ==
    ElectionPayloads
    \cup {[kind |-> "Service", fields |-> OneService, absent |-> a] :
             a \in {{}, {"pkg"}}}
    \cup {[kind |-> "ServiceConfig", fields |-> OneServiceConfig,
           absent |-> a] : a \in {{}, {"service_group"}}}
    \cup {[kind |-> "ServiceFile", fields |-> OneServiceFile, absent |-> a] :
             a \in {{}, {"filename"}}}
    \cup {[kind |-> "Departure", fields |-> [member_id |-> GossipPeer],
           absent |-> a] : a \in {{}, {"member_id"}}}
    \cup {[kind   |-> "Member",
           fields |-> [member |-> NewMember(GossipPeer, IpString(GossipPeer),
                                            FALSE),
                       health |-> "Alive"],
           absent |-> a] : a \in {{}, {"member"}}}

\* the values of type_ that are sent: the seven rumor types and one that
\* RumorType::from_i32 does not know
RumorTypeNumbers == {0, 1, 2, 3, 4, 5, 8, 9}

ProtoRumors ==
    {[type_ |-> t, from_id |-> f, payload |-> pl] :
        t \in RumorTypeNumbers,
        f \in {None, Some(GossipPeer)},
        pl \in {None} \cup {Some(x) : x \in RumorPayloads}}

\* what comes off the pull socket: a broken envelope, bytes that are no
\* Rumor, or a Rumor record
GossipMessages ==
    {[envelope |-> FALSE, proto |-> None], [envelope |-> TRUE, proto |-> None]}
    \cup {[envelope |-> TRUE, proto |-> Some(r)] : r \in ProtoRumors}

InitPull ==
    /\ incarnation = [n \in Nodes |-> 0]
    /\ pause = FALSE
    /\ shutdown = FALSE
    /\ inbound_pc = "none"
    /\ pull_pc = "top"
    /\ gossip_rx = None
    /\ pull_calls = <<>>
    /\ rumor_store = {}
    /\ outbound_alive = TRUE
    /\ member_list = [n \in Nodes |-> NoMembers]
    /\ \E bl \in SUBSET {GossipPeer} :
           blacklist = [n \in Nodes |-> IF n = LocalNode THEN bl ELSE {}]
    /\ tx_outbound = [n \in Nodes |-> <<>>]
    /\ udp = {}
    /\ rx = None
    /\ calls = <<>>
    /\ sent = {}
    /\ MergeIdle
    /\ suit = <<>>
    /\ SeqIdle
    /\ ClusterIdle
    /\ CommIdle

NextPull ==
    \/ PullLoad
    \/ PullRecvMsg(GossipMessages)
    \/ PullRecvErr
    \/ PullDispatch

SpecPull == InitPull /\ [][NextPull]_vars

\* the message in gossip_rx has been handled
PullHandled == IsSome(gossip_rx) /\ pull_pc \in {"top", "panicked"}
GossipRumor == Unwrap(Unwrap(gossip_rx).proto)

\* the message is a Rumor record from a sender that is not blacklisted
GossipAccepted ==
    /\ IsSome(gossip_rx)
    /\ Unwrap(gossip_rx).envelope
    /\ IsSome(Unwrap(gossip_rx).proto)
    /\ ~(/\ IsSome(GossipRumor.from_id)
         /\ Unwrap(GossipRumor.from_id) \in blacklist[LocalNode])

\* the record names a rumor type but its payload is missing or of another
\* variant than the type names
PayloadMismatch(type, rumor) ==
    \/ rumor.payload = None
    \/ Unwrap(rumor.payload).kind # (IF type = "ElectionUpdate"
                                     THEN "Election" ELSE type)

\* C24: the decoders return a ProtocolMismatch error, and do not panic,
\* when the payload of the record is missing or is not the variant the type
\* discriminator names.
C24_MismatchIsAnError ==
    \A t \in {"Member", "Service", "ServiceConfig", "ServiceFile",
              "Election", "ElectionUpdate", "Departure"} :
        (/\ GossipAccepted
         /\ RumorType_from_i32(GossipRumor.type_) = Some(t)
         /\ PayloadMismatch(t, GossipRumor)) =>
            /\ RumorFromProto(t, GossipRumor).result = "Err"
            /\ RumorFromProto(t, GossipRumor).error = "ProtocolMismatch"
            /\ PullHandled => ~Panicked(pull_calls)

\* the calls of the pull thread that insert into the member list or the
\* rumor store
PullInserts ==
    SelectSeq(pull_calls, LAMBDA c : c.call # "panic")

\* the rumors of one type the store holds
StoreOf(type) == {e \in rumor_store : e.type = type}

\* C26: a rumor that is decoded is routed by its type to exactly one insert
\* operation: Member to insert_member_from_rumor, Service to insert_service,
\* ServiceConfig to insert_service_config, ServiceFile to
\* insert_service_file, Election to insert_election, ElectionUpdate to
\* insert_update_election, Departure to insert_departure; a rumor of a type
\* that is not recognized, or one whose conversion fails, causes no insert.
C26_RoutedByType ==
    (PullHandled /\ GossipAccepted) =>
        LET type == RumorType_from_i32(GossipRumor.type_)
            op   == CASE GossipRumor.type_ = 1 -> "insert_member_from_rumor"
                      [] GossipRumor.type_ = 2 -> "insert_service"
                      [] GossipRumor.type_ = 3 -> "insert_election"
                      [] GossipRumor.type_ = 4 -> "insert_service_config"
                      [] GossipRumor.type_ = 5 -> "insert_service_file"
                      [] GossipRumor.type_ = 8 -> "insert_update_election"
                      [] GossipRumor.type_ = 9 -> "insert_departure"
                      [] OTHER -> "none"
        IN  IF IsSome(type)
                  /\ RumorFromProto(Unwrap(type), GossipRumor).result = "Ok"
            THEN /\ Len(pull_calls) = 1
                 /\ pull_calls[1].call = op
                 /\ GossipRumor.type_ # 1 =>
                        /\ pull_calls[1].rumor =
                               RumorFromProto(Unwrap(type), GossipRumor).value
                        /\ StoreOf(Unwrap(type)) # {}
            ELSE PullInserts = <<>>

C26_Witness ==
    /\ PullHandled /\ GossipAccepted
    /\ GossipRumor.type_ = 8
    /\ Len(pull_calls) = 1
    /\ pull_calls[1].call = "insert_update_election"
    /\ StoreOf("ElectionUpdate") # {}
    /\ StoreOf("Election") = {}
    /\ StoreOf("Service") # {}
    /\ IsSome(member_list[LocalNode][GossipPeer])

\* C30: an ElectionUpdate never merges with an Election of the same service
\* group: the two are held under different types with the same key and id,
\* a rumor of type ElectionUpdate is routed to insert_update_election and
\* one of type Election to insert_election, and the handling of a rumor of
\* one type leaves the stored rumor of the other type as it is.
C30_ElectionUpdateIsApart ==
    /\ [](PullHandled =>
            \A i \in 1..Len(pull_calls) :
                /\ pull_calls[i].call = "insert_election"
                       => GossipRumor.type_ = 3
                /\ pull_calls[i].call = "insert_update_election"
                       => GossipRumor.type_ = 8)
    /\ [][ (pull_pc = "dispatch" /\ GossipAccepted) =>
               /\ GossipRumor.type_ = 8 =>
                      StoreOf("Election")' = StoreOf("Election")
               /\ GossipRumor.type_ = 3 =>
                      StoreOf("ElectionUpdate")' = StoreOf("ElectionUpdate")
         ]_vars

C30_Witness ==
    /\ PullHandled /\ GossipAccepted
    /\ GossipRumor.type_ = 8
    /\ pull_calls # <<>>
    /\ \E e \in StoreOf("Election"), u \in StoreOf("ElectionUpdate") :
           /\ e.key = u.key /\ e.id = u.id
           /\ e.rumor.suitability < u.rumor.suitability

(***************************************************************************)
(* Decoding of SWIM records (protocol/swim.rs).                             *)
(***************************************************************************)
\* SwimType::from_i32
SwimType_from_i32(i) ==
    CASE i = 1 -> Some("Ping")
      [] i = 2 -> Some("Ack")
      [] i = 3 -> Some("Pingreq")
      [] OTHER -> None

\* Ack::from_proto
Ack_from_proto(value) ==
    IF value.payload = None THEN ProtocolMismatch("payload")
    ELSE IF Unwrap(value.payload).kind # "Ack" THEN Panic
    ELSE IF Unwrap(value.payload).from = None THEN ProtocolMismatch("from")
    ELSE Ok([type       |-> "Ack",
             membership |-> value.membership,
             from       |-> Unwrap(Unwrap(value.payload).from),
             forward_to |-> Unwrap(value.payload).forward_to])

\* Ping::from_proto
Ping_from_proto(value) ==
    IF value.payload = None THEN ProtocolMismatch("payload")
    ELSE IF Unwrap(value.payload).kind # "Ping" THEN Panic
    ELSE IF Unwrap(value.payload).from = None THEN ProtocolMismatch("from")
    ELSE Ok([type       |-> "Ping",
             membership |-> value.membership,
             from       |-> Unwrap(Unwrap(value.payload).from),
             forward_to |-> Unwrap(value.payload).forward_to])

\* PingReq::from_proto; a missing target is reported as "from"
PingReq_from_proto(value) ==
    IF value.payload = None THEN ProtocolMismatch("payload")
    ELSE IF Unwrap(value.payload).kind # "Pingreq" THEN Panic
    ELSE IF Unwrap(value.payload).from = None THEN ProtocolMismatch("from")
    ELSE IF Unwrap(value.payload).target = None THEN ProtocolMismatch("from")
    ELSE Ok([type       |-> "PingReq",
             membership |-> value.membership,
             from       |-> Unwrap(Unwrap(value.payload).from),
             target     |-> Unwrap(Unwrap(value.payload).target)])

\* mutant: a record of an unknown type is taken for a Ping
Swim_decode_UnknownIsPing(proto) ==
    IF SwimType_from_i32(proto.type_) = Some("Ack") THEN Ack_from_proto(proto)
    ELSE IF SwimType_from_i32(proto.type_) = Some("Pingreq")
    THEN PingReq_from_proto(proto)
    ELSE Ping_from_proto(proto)

\* Swim::decode, after prost's decoding of the bytes: the type decides the
\* decoder
Swim_decode(proto) ==
    IF SwimType_from_i32(proto.type_) = None THEN ProtocolMismatch("type")
    ELSE CASE Unwrap(SwimType_from_i32(proto.type_)) = "Ack" ->
                  Ack_from_proto(proto)
           [] Unwrap(SwimType_from_i32(proto.type_)) = "Ping" ->
                  Ping_from_proto(proto)
           [] Unwrap(SwimType_from_i32(proto.type_)) = "Pingreq" ->
                  PingReq_from_proto(proto)

\* mutant: a send on a channel without receiver is ignored
SendOrPanic_Ignores(cs, alive) ==
    IF alive THEN cs ELSE SelectSeq(cs, LAMBDA c : c.call # "tx_outbound")

\* match self.tx_outbound.send(..) { Ok(()) => {}, Err(e) => panic!(..) }:
\* the calls cs are made as they are if the receiving end of the channel is
\* there; if it is gone the first send on the channel panics
SendOrPanic(cs, alive) ==
    IF alive \/ ~\E i \in 1..Len(cs) : IsTx(cs[i]) THEN cs
    ELSE LET first == CHOOSE i \in 1..Len(cs) :
                          /\ IsTx(cs[i])
                          /\ \A j \in 1..(i - 1) : ~IsTx(cs[j])
         IN  SubSeq(cs, 1, first - 1) \o <<[call |-> "panic"]>>

\* one iteration of Inbound::run at node n for what recv_from returned:
\* unwrap_wire, decoding, then the handler
InboundRunWire(n, ml, bl, alive, addr, msg) ==
    IF ~msg.envelope THEN <<>>
    ELSE IF msg.proto = None THEN <<>>
    ELSE LET decoded == Swim_decode(Unwrap(msg.proto))
         IN  CASE decoded.result = "panic" -> <<[call |-> "panic"]>>
               [] decoded.result = "Err"   -> <<>>
               [] decoded.result = "Ok"    ->
                      SendOrPanic(InboundRun(n, ml, bl, addr, decoded.value),
                                  alive)

(***************************************************************************)
(* The loop of Inbound::run at the local node, step by step.                *)
(***************************************************************************)
\* mutant: the pause flag is not looked at
InboundLoad_IgnoresPause ==
    /\ inbound_pc = "top"
    /\ inbound_pc' = "recv"
    /\ rx' = None
    /\ calls' = <<>>
    /\ UNCHANGED <<pause, shutdown, pull_pc, gossip_rx, pull_calls,
                   rumor_store, outbound_alive, member_list, blacklist,
                   tx_outbound, udp, sent, notLoop>>

\* if self.server.pause.load(..) { sleep; continue }
InboundLoad ==
    /\ inbound_pc = "top"
    /\ inbound_pc' = IF pause THEN "sleep" ELSE "recv"
    /\ rx' = None
    /\ calls' = <<>>
    /\ UNCHANGED <<pause, shutdown, pull_pc, gossip_rx, pull_calls,
                   rumor_store, outbound_alive, member_list, blacklist,
                   tx_outbound, udp, sent, notLoop>>

\* thread::sleep(100 ms) is over
InboundSleep ==
    /\ inbound_pc = "sleep"
    /\ inbound_pc' = "top"
    /\ UNCHANGED <<pause, shutdown, pull_pc, gossip_rx, pull_calls,
                   rumor_store, outbound_alive, swimVars, notLoop>>

\* socket.recv_from returns a datagram a peer has sent
InboundRecvFrom(datagrams) ==
    /\ inbound_pc = "recv"
    /\ \E d \in datagrams : rx' = Some([datagram |-> d, handled |-> FALSE])
    /\ inbound_pc' = "dispatch"
    /\ UNCHANGED <<pause, shutdown, pull_pc, gossip_rx, pull_calls,
                   rumor_store, outbound_alive, member_list, blacklist,
                   tx_outbound, udp, calls, sent, notLoop>>

\* socket.recv_from returns an error (no data, timeout or other): the loop
\* goes on
InboundRecvErr ==
    /\ inbound_pc = "recv"
    /\ inbound_pc' = "top"
    /\ UNCHANGED <<pause, shutdown, pull_pc, gossip_rx, pull_calls,
                   rumor_store, outbound_alive, swimVars, notLoop>>

\* the datagram is unwrapped, decoded and handled; a panic ends the thread;
\* the send on the bounded channel waits for room
InboundDispatch ==
    /\ inbound_pc = "dispatch"
    /\ LET d  == Unwrap(rx).datagram
           n  == d.dst.ip
           cs == InboundRunWire(n, member_list[n], blacklist[n],
                                outbound_alive, d.src, d.wire)
       IN  /\ Len(tx_outbound[n]) + Len(TxOf(cs)) <= MaxChannel
           /\ calls' = cs
           /\ member_list' =
                 [member_list EXCEPT ![n] = ApplyInserts(n, @, cs, 1)]
           /\ tx_outbound' = [tx_outbound EXCEPT ![n] = @ \o TxOf(cs)]
           /\ udp' = udp \cup SendsOf(cs)
           /\ rx' = Some([datagram |-> d, handled |-> TRUE])
           /\ inbound_pc' = IF Panicked(cs) THEN "panicked" ELSE "top"
    /\ UNCHANGED <<pause, shutdown, pull_pc, gossip_rx, pull_calls,
                   rumor_store, outbound_alive, blacklist, sent, notLoop>>

\* the outbound thread takes the next Ack off the channel
OutboundTake ==
    /\ outbound_alive
    /\ OutboundRecv(LocalNode)

\* the outbound thread ends and drops the receiving end of the channel
OutboundDies ==
    /\ outbound_alive
    /\ outbound_alive' = FALSE
    /\ tx_outbound' = [tx_outbound EXCEPT ![LocalNode] = <<>>]
    /\ UNCHANGED <<pause, shutdown, inbound_pc, pull_pc, gossip_rx,
                   pull_calls, rumor_store, member_list, blacklist, udp, rx,
                   calls, sent, notLoop>>

\* the supervisor sets or clears the pause flag
SetPause(b) ==
    /\ pause # b
    /\ pause' = b
    /\ UNCHANGED <<shutdown, inbound_pc, pull_pc, gossip_rx, pull_calls,
                   rumor_store, outbound_alive, swimVars, notLoop>>

\* the shutdown flag is set
SetShutdown ==
    /\ ~shutdown
    /\ shutdown' = TRUE
    /\ UNCHANGED <<pause, inbound_pc, pull_pc, gossip_rx, pull_calls,
                   rumor_store, outbound_alive, swimVars, notLoop>>

(***************************************************************************)
(* SpecLoops: the inbound and the pull thread of one node, the two flags,   *)
(* a peer that sends well-formed and ill-formed messages to both sockets,   *)
(* and an outbound thread that may end.                                     *)
(***************************************************************************)
\* the member the local node knows from the start, target of PingReqs
KnownPeer == CHOOSE p \in Peers : p # GossipPeer

LoopMemberships ==
    <<[member |-> NewMember(GossipPeer, IpString(GossipPeer), FALSE),
       health |-> "Alive"]>>

\* SWIM records: one well-formed of each type, and ill-formed ones
LoopSwims ==
    {[type_ |-> 1, membership |-> <<>>,
      payload |-> Some([kind |-> "Ping",
                        from |-> Some(ServerMember(GossipPeer)),
                        forward_to |-> None])],
     [type_ |-> 2, membership |-> LoopMemberships,
      payload |-> Some([kind |-> "Ack",
                        from |-> Some(ServerMember(GossipPeer)),
                        forward_to |-> None])],
     [type_ |-> 3, membership |-> <<>>,
      payload |-> Some([kind |-> "Pingreq",
                        from |-> Some(ServerMember(GossipPeer)),
                        target |-> Some(ServerMember(KnownPeer))])],
     [type_ |-> 1, membership |-> <<>>, payload |-> None],
     [type_ |-> 2, membership |-> <<>>,
      payload |-> Some([kind |-> "Ack", from |-> None,
                        forward_to |-> None])],
     [type_ |-> 0, membership |-> LoopMemberships,
      payload |-> Some([kind |-> "Ping",
                        from |-> Some(ServerMember(GossipPeer)),
                        forward_to |-> None])],
     [type_ |-> 1, membership |-> LoopMemberships,
      payload |-> Some([kind |-> "Ack",
                        from |-> Some(ServerMember(GossipPeer)),
                        forward_to |-> None])]}

LoopDatagrams ==
    {[src |-> SocketOf(GossipPeer), dst |-> SocketOf(LocalNode), wire |-> w] :
        w \in {[envelope |-> FALSE, proto |-> None],
               [envelope |-> TRUE, proto |-> None]}
              \cup {[envelope |-> TRUE, proto |-> Some(x)] : x \in LoopSwims}}

\* rumor records: a well-formed election, and ill-formed ones
LoopRumors ==
    {r \in ProtoRumors :
        /\ r.type_ \in {0, 3}
        /\ r.payload \in {None} \cup
               {Some(x) : x \in {y \in RumorPayloads :
                                    /\ y.kind \in {"Election", "Service"}
                                    /\ y.absent = {}
                                    /\ y.kind = "Election"
                                           => y.fields.suitability = 0}}
        /\ r.payload = None => r.from_id # None}

LoopGossip ==
    {[envelope |-> FALSE, proto |-> None], [envelope |-> TRUE, proto |-> None]}
    \cup {[envelope |-> TRUE, proto |-> Some(r)] : r \in LoopRumors}

InitLoops ==
    /\ incarnation = [n \in Nodes |-> 0]
    /\ pause = FALSE
    /\ shutdown = FALSE
    /\ inbound_pc = "top"
    /\ pull_pc = "top"
    /\ gossip_rx = None
    /\ pull_calls = <<>>
    /\ rumor_store = {}
    /\ outbound_alive = TRUE
    /\ member_list =
           [n \in Nodes |->
               IF n = LocalNode
               THEN [m \in Nodes |->
                        IF m = KnownPeer
                        THEN Some([member |-> ServerMember(m),
                                   health |-> "Alive"])
                        ELSE None]
               ELSE NoMembers]
    /\ blacklist = [n \in Nodes |-> {}]
    /\ tx_outbound = [n \in Nodes |-> <<>>]
    /\ udp = {}
    /\ rx = None
    /\ calls = <<>>
    /\ sent = {}
    /\ MergeIdle
    /\ suit = <<>>
    /\ SeqIdle
    /\ ClusterIdle
    /\ CommIdle

NextLoops ==
    \/ InboundLoad
    \/ InboundSleep
    \/ InboundRecvFrom(LoopDatagrams)
    \/ InboundRecvErr
    \/ InboundDispatch
    \/ PullLoad
    \/ PullSleep
    \/ PullRecvMsg(LoopGossip)
    \/ PullRecvErr
    \/ PullDispatch
    \/ PeerRecv
    \/ OutboundTake
    \/ OutboundDies
    \/ \E b \in BOOLEAN : SetPause(b)
    \/ SetShutdown

\* a thread that can take a step takes one; a recv returns, with a message
\* or with an error; the outbound thread, while it runs, empties the channel
FairLoops ==
    /\ WF_vars(InboundLoad) /\ WF_vars(InboundSleep) /\ WF_vars(InboundDispatch)
    /\ WF_vars(InboundRecvFrom(LoopDatagrams) \/ InboundRecvErr)
    /\ WF_vars(PullLoad) /\ WF_vars(PullSleep) /\ WF_vars(PullDispatch)
    /\ WF_vars(PullRecvMsg(LoopGossip) \/ PullRecvErr)
    /\ WF_vars(OutboundTake)

SpecLoops == InitLoops /\ [][NextLoops]_vars /\ FairLoops

\* what recv_from returned to the inbound thread
LoopRxWire == Unwrap(rx).datagram.wire
LoopRxProto == Unwrap(LoopRxWire.proto)

\* the datagram fails unwrapping or decoding: the envelope is broken, the
\* bytes are no Swim record, the type is unknown, the payload is missing, or
\* the payload of the type lacks its sender or its target
LoopRxUndecodable ==
    \/ ~LoopRxWire.envelope
    \/ LoopRxWire.proto = None
    \/ LoopRxProto.type_ \notin {1, 2, 3}
    \/ LoopRxProto.payload = None
    \/ /\ Unwrap(LoopRxProto.payload).kind =
              (CASE LoopRxProto.type_ = 1 -> "Ping"
                 [] LoopRxProto.type_ = 2 -> "Ack"
                 [] LoopRxProto.type_ = 3 -> "Pingreq")
       /\ \/ Unwrap(LoopRxProto.payload).from = None
          \/ /\ LoopRxProto.type_ = 3
             /\ Unwrap(LoopRxProto.payload).target = None

C25_NoPeerStopsTheLoops ==
    /\ pull_pc # "panicked"
    /\ outbound_alive => inbound_pc # "panicked"

\* the inbound thread is about to hand an Ack meant for this node to the
\* outbound channel
LoopRxLocalAck ==
    /\ LoopRxWire.envelope /\ IsSome(LoopRxWire.proto)
    /\ Swim_decode(LoopRxProto).result = "Ok"
    /\ Swim_decode(LoopRxProto).value.type = "Ack"
    /\ ~(/\ Swim_decode(LoopRxProto).value.from.id \in blacklist[LocalNode]
         /\ Swim_decode(LoopRxProto).value.forward_to = None)
    /\ \/ Swim_decode(LoopRxProto).value.forward_to = None
       \/ Unwrap(Swim_decode(LoopRxProto).value.forward_to).id = LocalNode

\* C29: if the hand-over of an Ack to the outbound channel fails because the
\* receiving end is gone, the inbound thread panics and does not go on, and
\* the memberships of the Ack are not ingested.
C29_BrokenChannelPanics ==
    [][ (inbound_pc = "dispatch" /\ inbound_pc' # "dispatch"
         /\ LoopRxLocalAck /\ ~outbound_alive)
        => ( /\ inbound_pc' = "panicked"
             /\ member_list' = member_list
             /\ tx_outbound' = tx_outbound
             /\ \A i \in 1..Len(calls') : ~IsInsert(calls'[i]) )
      ]_vars

C29_Witness ==
    /\ inbound_pc = "panicked"
    /\ ~outbound_alive
    /\ IsSome(rx) /\ LoopRxLocalAck
    /\ LoopRxProto.membership # <<>>
    /\ Panicked(calls)
    /\ member_list[LocalNode][GossipPeer] = None

\* a thread handles the message it holds and something is done for it
InboundProcesses ==
    inbound_pc = "dispatch" /\ inbound_pc' # "dispatch" /\ calls' # <<>>
PullProcesses ==
    pull_pc = "dispatch" /\ pull_pc' # "dispatch" /\ pull_calls' # <<>>

\* C27 (as stated): while the pause flag is set neither loop processes a
\* message, however the setting of the flag and the arrival of a message
\* interleave.
C27_PausedLoopsProcessNothing ==
    [][ pause => (~InboundProcesses /\ ~PullProcesses) ]_vars

\* C27 (amended): the flag is read at the top of an iteration only.  A loop
\* at the top of an iteration or asleep stays there as long as the flag is
\* set and processes nothing; a loop that passed the check before the flag
\* was set handles the one message it receives and is then back at the top
\* (or has panicked); with the flag cleared the loop goes from the top to
\* its recv.
C27_PauseHoldsAtIterationBoundary ==
    [][ /\ (pause /\ inbound_pc \in {"top", "sleep"})
            => (inbound_pc' \in {"top", "sleep"} /\ ~InboundProcesses)
        /\ (pause /\ pull_pc \in {"top", "sleep"})
            => (pull_pc' \in {"top", "sleep"} /\ ~PullProcesses)
        /\ (inbound_pc = "dispatch" /\ inbound_pc' # "dispatch")
            => inbound_pc' \in {"top", "panicked"}
        /\ (pull_pc = "dispatch" /\ pull_pc' # "dispatch")
            => pull_pc' \in {"top", "panicked"}
        /\ (~pause /\ inbound_pc = "top" /\ inbound_pc' # "top")
            => inbound_pc' = "recv"
        /\ (~pause /\ pull_pc = "top" /\ pull_pc' # "top")
            => pull_pc' = "recv"
      ]_vars

C27_Witness ==
    /\ pause
    /\ inbound_pc = "sleep"
    /\ pull_pc = "top"
    /\ IsSome(gossip_rx)
    /\ pull_calls # <<>>
    /\ rumor_store # {}

\* C28 (as stated): once the shutdown flag is set, the inbound loop and the
\* pull loop each return.
C28_ShutdownEndsTheLoops ==
    shutdown ~> (inbound_pc = "returned" /\ pull_pc = "returned")

(***************************************************************************)
(* SpecSteal: Election::steal_votes on two elections whose votes vectors   *)
(* are arbitrary (a decoded rumor carries whatever list its sender wrote,  *)
(* repeated ids included).                                                 *)
(***************************************************************************)
\* longest votes vector of the scenario
MaxVotes == 3

\* every vector of member ids of length at most n
RECURSIVE VoteVectors(_)
VoteVectors(n) ==
    IF n = 0 THEN {<<>>}
    ELSE VoteVectors(n - 1) \cup
         {Append(v, m) : v \in {w \in VoteVectors(n - 1) : Len(w) = n - 1},
                         m \in Members}

InitSteal ==
    /\ \E x, y \in VoteVectors(MaxVotes) :
          /\ local = [ElectionNew(1, 0) EXCEPT !.votes = x]
          /\ incoming = [ElectionNew(NumMembers, 0) EXCEPT !.votes = y]
    /\ prev = NoElection
    /\ ret = FALSE
    /\ branch = "none"
    /\ pc = "recv"
    /\ suit = <<>>
    /\ SeqIdle
    /\ ClusterIdle
    /\ CommIdle
    /\ SwimIdle
    /\ LoopIdle

\* local.steal_votes(&mut incoming)
StealVotes ==
    /\ pc = "recv"
    /\ prev' = local
    /\ local' = steal_votes(local, incoming)
    /\ pc' = "done"
    /\ UNCHANGED <<incoming, ret, branch, notMerge>>

NextSteal == StealVotes

SpecSteal == InitSteal /\ [][NextSteal]_vars

\* where x first occurs in the vector s
FirstIndex(s, x) ==
    CHOOSE i \in 1..Len(s) : s[i] = x /\ \A j \in 1..(i - 1) : s[j] # x

\* what steal_votes pushed: the votes behind those held before
StolenVotes == SubSeq(local.votes, Len(prev.votes) + 1, Len(local.votes))

\* C31: after X.steal_votes(Y), X.votes is X's previous votes in their
\* previous order followed by those of Y's votes that were not present, each
\* once and in the order in which Y lists them first; everything else of X,
\* and Y, is as it was.
C31_StealIsOrderedUnion ==
    /\ [](pc = "done" =>
            /\ Len(local.votes) >= Len(prev.votes)
            /\ SubSeq(local.votes, 1, Len(prev.votes)) = prev.votes
            /\ Range(StolenVotes) = Range(incoming.votes) \ Range(prev.votes)
            /\ NoDup(StolenVotes)
            /\ \A i, j \in 1..Len(StolenVotes) :
                  i < j => FirstIndex(incoming.votes, StolenVotes[i])
                               < FirstIndex(incoming.votes, StolenVotes[j])
            /\ [local EXCEPT !.votes = prev.votes] = prev)
    /\ [][incoming' = incoming]_vars

C31_Witness ==
    /\ pc = "done"
    /\ ~NoDup(incoming.votes)
    /\ Range(incoming.votes) \cap Range(prev.votes) # {}
    /\ Len(StolenVotes) = 1
    /\ FirstIndex(incoming.votes, StolenVotes[1]) > 1
    /\ Len(incoming.votes) = MaxVotes

\* C32 (as stated): the Election decoded from a rumor names the candidate
\* its Election payload names, whoever sent the rumor: the election handed to
\* insert_election has the member_id of the payload.
C32_DecodeKeepsCandidate ==
    ( /\ PullHandled /\ GossipAccepted
      /\ GossipRumor.type_ = 3
      /\ Election_from_proto(GossipRumor).result = "Ok" )
    => /\ Len(pull_calls) = 1
       /\ pull_calls[1].call = "insert_election"
       /\ pull_calls[1].rumor.member_id =
              Unwrap(GossipRumor.payload).fields.member_id

(***************************************************************************)
(* SpecMembers: the member list of one node and the node's own             *)
(* incarnation, under the inserts the inbound thread (Ping, Ack, PingReq   *)
(* and the memberships they carry) and the pull thread (Member rumors)     *)
(* make, one call at a time and in any interleaving of the two threads.    *)
(***************************************************************************)
\* largest incarnation a peer names, and the incarnation of this node up to
\* which it goes on receiving
MaxIncarnation == 1

\* what the actions of this scenario leave alone
notMembers == <<mergeVars, seqVars, suit, clusterVars, commVars, blacklist,
                sent, pause, shutdown, inbound_pc, pull_pc, rumor_store,
                outbound_alive>>

\* the Member of node id at an incarnation
MemberAt(id, inc, departed) ==
    [NewMember(id, IpString(id), departed) EXCEPT !.incarnation = inc]

\* memberships a peer piggybacks: none, one about itself, or one that calls
\* this node Suspect or Confirmed
MemberMemberships ==
    {<<>>}
    \cup {<<[member |-> MemberAt(GossipPeer, i, FALSE), health |-> h]>> :
             i \in 0..MaxIncarnation, h \in Healths}
    \cup {<<[member |-> MemberAt(LocalNode, i, FALSE), health |-> h]>> :
             i \in 0..MaxIncarnation, h \in {"Suspect", "Confirmed"}}

MemberDatagrams ==
    {[src  |-> SocketOf(GossipPeer), dst |-> SocketOf(LocalNode),
      swim |-> m] :
        m \in {[type |-> "Ping", membership |-> ms,
                from |-> MemberAt(GossipPeer, i, d), forward_to |-> None] :
                   ms \in MemberMemberships, i \in 0..MaxIncarnation,
                   d \in BOOLEAN}
              \cup
              {[type |-> "Ack", membership |-> ms,
                from |-> MemberAt(GossipPeer, 0, FALSE),
                forward_to |-> None] : ms \in MemberMemberships}
              \cup
              {[type |-> "PingReq", membership |-> ms,
                from |-> MemberAt(GossipPeer, 0, FALSE),
                target |-> MemberAt(KnownPeer, 0, FALSE)] :
                   ms \in MemberMemberships}}

\* Member rumors on the gossip socket
MemberGossip ==
    {[envelope |-> TRUE,
      proto    |-> Some([type_   |-> 1,
                         from_id |-> Some(GossipPeer),
                         payload |-> Some([kind   |-> "Member",
                                           fields |-> ms[1],
                                           absent |-> {}])])] :
        ms \in MemberMemberships \ {<<>>}}

\* the refutation rule of insert: a record that calls this node anything but
\* Alive at an incarnation up to its own makes the node raise its incarnation
Refute(n, inc, member, health) ==
    IF member.id = n /\ health # "Alive" /\ member.incarnation <= inc
    THEN inc + 1
    ELSE inc

InitMembers ==
    /\ incarnation = [n \in Nodes |-> 0]
    /\ member_list = [n \in Nodes |-> NoMembers]
    /\ blacklist = [n \in Nodes |-> {}]
    /\ tx_outbound = [n \in Nodes |-> <<>>]
    /\ udp = {}
    /\ rx = None
    /\ calls = <<>>
    /\ sent = {}
    /\ MergeIdle
    /\ suit = <<>>
    /\ SeqIdle
    /\ ClusterIdle
    /\ CommIdle
    /\ LoopIdle

\* recv_from returns a datagram; unwrap, decode and dispatch give the calls
\* the handler is going to make
MembersInboundRecv ==
    /\ rx = None
    /\ udp = {}
    /\ Len(tx_outbound[LocalNode]) < MaxChannel
    /\ incarnation[LocalNode] <= MaxIncarnation
    /\ \E d \in MemberDatagrams :
          LET cs == InboundRun(LocalNode, member_list[LocalNode],
                               blacklist[LocalNode], d.src, d.swim)
          IN  /\ calls' = cs
              /\ rx' = Some([datagram    |-> d,
                             handled     |-> cs = <<>>,
                             incarnation |-> incarnation[LocalNode]])
    /\ UNCHANGED <<member_list, incarnation, tx_outbound, udp, gossip_rx,
                   pull_calls, notMembers>>

\* the effect of one call c of a handler of node n on the member list and
\* on the node's incarnation
MembersApply(n, c) ==
    IF IsInsert(c)
    THEN /\ member_list' = [member_list EXCEPT
                               ![n] = MemberListInsert(n, @, c.member, c.health)]
         /\ incarnation' = [incarnation EXCEPT
                               ![n] = Refute(n, @, c.member, c.health)]
    ELSE UNCHANGED <<member_list, incarnation>>

\* the inbound thread makes the next call of the handler
MembersInboundCall ==
    /\ IsSome(rx)
    /\ calls # <<>>
    /\ MembersApply(LocalNode, Head(calls))
    /\ udp' = udp \cup SendsOf(<<Head(calls)>>)
    /\ tx_outbound' = [tx_outbound EXCEPT ![LocalNode] = @ \o TxOf(<<Head(calls)>>)]
    /\ calls' = Tail(calls)
    /\ rx' = Some([Unwrap(rx) EXCEPT !.handled = (Tail(calls) = <<>>)])
    /\ UNCHANGED <<gossip_rx, pull_calls, notMembers>>

\* recv_msg returns a message; unwrap, decode and routing give the call the
\* pull thread is going to make
MembersPullRecv ==
    /\ gossip_rx = None
    /\ incarnation[LocalNode] <= MaxIncarnation
    /\ \E msg \in MemberGossip :
          /\ gossip_rx' = Some(msg)
          /\ pull_calls' = PullRun(blacklist[LocalNode], msg)
    /\ UNCHANGED <<member_list, incarnation, tx_outbound, udp, rx, calls,
                   notMembers>>

\* the pull thread makes the call
MembersPullCall ==
    /\ IsSome(gossip_rx)
    /\ pull_calls # <<>>
    /\ MembersApply(LocalNode, Head(pull_calls))
    /\ pull_calls' = Tail(pull_calls)
    /\ UNCHANGED <<tx_outbound, udp, rx, calls, gossip_rx, notMembers>>

\* the pull loop goes back to recv_msg
MembersPullContinue ==
    /\ IsSome(gossip_rx)
    /\ pull_calls = <<>>
    /\ gossip_rx' = None
    /\ UNCHANGED <<member_list, incarnation, tx_outbound, udp, rx, calls,
                   pull_calls, notMembers>>

NextMembers ==
    \/ MembersInboundRecv
    \/ MembersInboundCall
    \/ InboundContinue
    \/ MembersPullRecv
    \/ MembersPullCall
    \/ MembersPullContinue
    \/ OutboundRecv(LocalNode)
    \/ PeerRecv

SpecMembers == InitMembers /\ [][NextMembers]_vars

\* the datagram the inbound thread has taken, and what it is about
MembersRx == Unwrap(rx).datagram.swim
MembersKnown(id) == IsSome(member_list[LocalNode][id])
MembersEntry(id) == Unwrap(member_list[LocalNode][id])

MembersSuspected ==
    /\ IsSome(rx)
    /\ MembersRx.membership # <<>>
    /\ MembersRx.membership[1].member.id = LocalNode
    /\ MembersRx.membership[1].health \in {"Suspect", "Confirmed"}
    /\ MembersRx.membership[1].member.incarnation <= Unwrap(rx).incarnation

\* C35 (as stated): once a node has handled a datagram with a membership
\* that calls it Suspect or Confirmed at an incarnation up to its own, its
\* own incarnation is strictly greater than it was on receipt.
C35_SuspicionIsRefuted ==
    (MembersSuspected /\ Unwrap(rx).handled)
        => incarnation[LocalNode] > Unwrap(rx).incarnation

\* C36: the term of the stored election never decreases, whatever elections
\* are merged into it.
C36_TermNeverDecreases ==
    [][local'.term >= local.term]_vars

C36_Witness ==
    /\ pc = "done"
    /\ branch \in {"give", "tie_give"}
    /\ local.term > prev.term
    /\ prev.status = "Finished"

\* C38: merging the same incoming election once more, right after it was
\* merged, leaves the stored election exactly as the first merge left it.
C38_SecondMergeChangesNothing ==
    pc = "done" => ElectionMerge(local, incoming).election = local

C38_Witness ==
    /\ pc = "done"
    /\ branch = "tie_give"
    /\ local # prev
    /\ local # incoming
    /\ ElectionMerge(local, incoming).arm = "tie_steal"
    /\ ElectionMerge(local, incoming).changed

(***************************************************************************)
(* SpecPool: elections created by Election::new, for any candidates and    *)
(* suitabilities, and merged into one another in any order.                *)
(***************************************************************************)
InitPool ==
    /\ \E c \in [Nodes -> Members], sv \in [Nodes -> 0..MaxSuit] :
          held = [n \in Nodes |-> ElectionNew(c[n], sv[n])]
    /\ wire = {}
    /\ suit = <<>>
    /\ MergeIdle
    /\ SeqIdle
    /\ CommIdle
    /\ SwimIdle
    /\ LoopIdle

\* held[a].merge(held[b].clone())
PoolMerge(a, b) ==
    /\ a # b
    /\ held' = [held EXCEPT ![a] = ElectionMerge(held[a], held[b]).election]
    /\ UNCHANGED <<wire, suit, notCluster>>

NextPool == \E a, b \in Nodes : PoolMerge(a, b)

SpecPool == InitPool /\ [][NextPool]_vars

\* C37: every election reached from Election::new by merges with elections
\* reached the same way lists no member twice among its votes and lists its
\* own member_id.
C37_VotesAreASetWithTheCandidate ==
    \A n \in Nodes :
        /\ NoDup(held[n].votes)
        /\ held[n].member_id \in Range(held[n].votes)

C37_Witness ==
    \E n \in Nodes :
        /\ Len(held[n].votes) = NumMembers
        /\ held[n].suitability = MaxSuit
        /\ \A m \in Nodes : held[m] = held[n]

\* the message the pull thread holds is a Rumor record whose from_id is
\* blacklisted
GossipBlacklisted ==
    /\ IsSome(gossip_rx)
    /\ Unwrap(gossip_rx).envelope
    /\ IsSome(Unwrap(gossip_rx).proto)
    /\ IsSome(GossipRumor.from_id)
    /\ Unwrap(GossipRumor.from_id) \in blacklist[LocalNode]

\* C39: a rumor whose from_id is blacklisted causes no insert into the rumor
\* store or the member list, whatever its type and payload, and the pull
\* loop goes on.
C39_BlacklistedRumorIsDropped ==
    [][ (pull_pc = "dispatch" /\ GossipBlacklisted)
        => ( /\ pull_calls' = <<>>
             /\ rumor_store' = rumor_store
             /\ member_list' = member_list
             /\ pull_pc' = "top" )
      ]_vars

C39_Witness ==
    /\ PullHandled /\ GossipBlacklisted
    /\ pull_pc = "top"
    /\ GossipRumor.type_ = 3
    /\ IsSome(GossipRumor.payload)
    /\ Unwrap(GossipRumor.payload).kind = "Election"
    /\ Unwrap(GossipRumor.payload).absent = {}
    /\ pull_calls = <<>>
    /\ StoreOf("Election") = {}

\* the address and the port of forward_to do not parse as a socket address
RxForwardToUnparseable ==
    ParseSocketAddr(Unwrap(RxSwim.forward_to).address,
                    Unwrap(RxSwim.forward_to).swim_port) = None

\* C40: an Ack that must be forwarded but whose forward_to does not parse as
\* a socket address is abandoned: nothing is sent, nothing is handed to the
\* outbound channel, no membership is inserted, and the loop is ready for
\* the next datagram.
C40_UnforwardableAckIsAbandoned ==
    [][ ( /\ IsSome(rx) /\ ~Unwrap(rx).handled
          /\ RxToBeForwarded /\ RxForwardToUnparseable )
        => ( /\ calls' = <<>>
             /\ udp' = udp
             /\ tx_outbound' = tx_outbound
             /\ member_list' = member_list
             /\ IsSome(rx') /\ Unwrap(rx').handled )
      ]_vars

C40_Witness ==
    /\ Handled /\ RxToBeForwarded /\ RxForwardToUnparseable
    /\ ~RxBlacklisted
    /\ RxSwim.membership # <<>>
    /\ member_list[LocalNode][RxSwim.membership[1].member.id] = None
    /\ calls = <<>>
    /\ udp = {}
    /\ tx_outbound[LocalNode] = <<>>

====
